---- MODULE Spec2Model ----
(***************************************************************************)
(* A model of the Verto client SDK (useverto/js): Exchange.estimateSwap,   *)
(* Exchange.swap, Exchange.getOrderBook and Exchange.cancel, Utils         *)
(* .createFee with the holder selection, Utils.weightedRandom, Utils       *)
(* .validateHash and Verto.recommendPost, each as a specification of its   *)
(* own, and concurrent calls of estimateSwap and weightedRandom.           *)
(*                                                                         *)
(* JavaScript numbers are modelled as exact rationals <<n, d>> in lowest   *)
(* terms with d > 0, extended by the three IEEE specials the code can      *)
(* produce: <<1, 0>> is Infinity, <<-1, 0>> is -Infinity and <<0, 0>> is   *)
(* NaN.  The value undefined is the empty tuple.  Rounding of the binary   *)
(* floating point format and the sign of zero are not modelled.            *)
(***************************************************************************)
EXTENDS Integers, Sequences, FiniteSets, TLC

VARIABLES
  op,                \* the operation this behaviour runs
  pc,                \* position inside the running operation
  pair,              \* argument pair: [from, to]
  amount,            \* argument amount
  price,             \* argument price (Undefined when omitted)
  stateReads,        \* number of contract state reads issued (Utils.getState)
  pairOrderbook,     \* estimateSwap: the fetched order book of the pair
  reverseOrders,     \* estimateSwap: orders not offering pair.from
  avgPrice,          \* estimateSwap: mean price of the same-direction orders
  immediate,         \* estimateSwap: accumulated immediate amount
  remainingQuantity, \* estimateSwap: amount still to swap
  idx,               \* estimateSwap: position of the for-of loop in reverseOrders
  rest,              \* estimateSwap: the rest of the result (Undefined when absent)
  error,             \* message of the error the operation threw ("" when none)
  input,             \* weightedRandom: the weight map, as its entries in key order
  r,                 \* weightedRandom: the draw of Math.random()
  sum,               \* weightedRandom: running sum of the weights
  keyIdx,            \* weightedRandom: position of the for-of loop in Object.keys(input)
  selected,          \* weightedRandom: the returned address (Undefined before return)
  viaFallback,       \* weightedRandom: TRUE when the return after the loop was taken
  version,           \* swap: which revision of Exchange.swap runs
  calls,             \* swap: the external calls issued so far, in order
  orderID,           \* swap: the order id the hook handed back (NoOrder before)
  transfer,          \* swap: the token transfer that was made (Undefined before it)
  orderInput,        \* swap: the input of the createOrder interaction
  token,             \* createFee: the token the fee is paid in
  feeTarget,         \* createFee: "exchange" or "token_holder"
  fees,              \* the fee transactions posted so far, in order
  state,             \* selectWeightedHolder: the fetched state object
  fetched,           \* the exchange token state as the contract held it at the read
  height,            \* the height of the chain at the read
  webhook,           \* swap: the webhook request ("none", "pending", "ok", "failed")
  hashArg,           \* validateHash: the argument
  query,             \* getOrderBook: the argument
  clob,              \* the state of the CLOB contract
  result,            \* the value the operation returned (Undefined before return)
  posts,             \* recommendPost: the fetched trading posts
  procs,             \* concurrent calls: each call's arguments, position and result
  slots,             \* concurrent calls: where the awaited values are delivered
  ledger,            \* the transactions the gateway holds for the queried ids
  cursor,            \* the cursor of the next page request (0 when absent)
  orderEdges,        \* the orders array of loopOrders, loop and calculateVolumeForDay
  between,           \* loopOrders: the between argument (Undefined when absent)
  transferTxs,       \* calculateVolumeForDay: the transfer ids kept by the filter
  matched,           \* calculateVolumeForDay: the transactions the gateway answers with
  validOrderQuantities, \* calculateVolumeForDay: the quantities pushed so far
  history,           \* latestPrice: the orders the cache holds, by day before today
  high               \* latestPrice: the day window asked for, in days before today

vars == <<op, pc, pair, amount, price, stateReads, pairOrderbook, reverseOrders,
          avgPrice, immediate, remainingQuantity, idx, rest, error,
          input, r, sum, keyIdx, selected, viaFallback, version, calls, orderID,
          transfer, orderInput,
          token, feeTarget, fees, state, fetched, height, webhook, hashArg, query,
          clob, result, posts, procs, slots,
          ledger, cursor, orderEdges, between, transferTxs, matched,
          validOrderQuantities, history, high>>

estimateVars == <<pairOrderbook, reverseOrders, avgPrice, immediate,
                  remainingQuantity, idx, rest>>
weightedVars == <<input, r, sum, keyIdx, selected, viaFallback>>
swapVars == <<version, calls, orderID, transfer, orderInput>>
feeVars == <<token, feeTarget, fees, state, fetched, height>>
queryVars == <<hashArg, query, clob, posts>>
concurrentVars == <<procs, slots>>
ledgerVars == <<ledger, cursor, orderEdges, between, transferTxs, matched,
                validOrderQuantities>>
priceVars == <<history, high>>

(***************************************************************************)
(* Bounds of the model.                                                    *)
(***************************************************************************)
MaxOrders == 2     \* orders in the book of the traded pair
MaxQty == 2        \* largest order quantity
MaxAmount == 3     \* largest swap amount
MaxKeys == 3       \* entries of a weight map
Grid == 4          \* weights and draws are multiples of 1/Grid

(***************************************************************************)
(* JavaScript numbers.                                                     *)
(***************************************************************************)
Undefined == <<>>
NaN == <<0, 0>>
Infinity == <<1, 0>>
NegInfinity == <<-1, 0>>

Abs(x) == IF x < 0 THEN -x ELSE x
Sign(x) == IF x < 0 THEN -1 ELSE IF x > 0 THEN 1 ELSE 0

RECURSIVE GCD(_, _)
GCD(a, b) == IF b = 0 THEN a ELSE GCD(b, a % b)

\* The number n/d; d = 0 gives the special of the sign of n.
Norm(n, d) ==
  IF d = 0 THEN <<Sign(n), 0>>
  ELSE LET s == IF d < 0 THEN -1 ELSE 1
           g == GCD(Abs(n), Abs(d))
       IN  <<(s * n) \div g, (s * d) \div g>>

Num(n) == <<n, 1>>
Zero == Num(0)
Frac(n, d) == Norm(n, d)

IsNaN(x) == x = NaN
IsFinite(x) == x # Undefined /\ x[2] # 0

Mul(a, b) == Norm(a[1] * b[1], a[2] * b[2])

Add(a, b) ==
  IF IsNaN(a) \/ IsNaN(b) THEN NaN
  ELSE IF a[2] = 0 /\ b[2] = 0 THEN (IF a = b THEN a ELSE NaN)
  ELSE IF a[2] = 0 THEN a
  ELSE IF b[2] = 0 THEN b
  ELSE Norm(a[1] * b[2] + b[1] * a[2], a[2] * b[2])

Neg(a) == <<-a[1], a[2]>>
Sub(a, b) == Add(a, Neg(b))

\* 1 / a
Inv(a) ==
  IF IsNaN(a) THEN NaN
  ELSE IF a[2] = 0 THEN Zero
  ELSE IF a[1] = 0 THEN Infinity
  ELSE Norm(a[2], a[1])

Div(a, b) == Mul(a, Inv(b))

\* a <= b; every comparison with NaN is false
Leq(a, b) ==
  /\ ~IsNaN(a)
  /\ ~IsNaN(b)
  /\ IF a[2] = 0 /\ b[2] = 0 THEN a[1] <= b[1]
     ELSE a[1] * b[2] <= b[1] * a[2]

\* a > b
Gt(a, b) == ~IsNaN(a) /\ ~IsNaN(b) /\ ~Leq(a, b)

\* ToBoolean of a number or undefined
Truthy(x) == x # Undefined /\ ~IsNaN(x) /\ x # Zero

\* a ?? b
Coalesce(a, b) == IF a = Undefined THEN b ELSE a

\* a || b
OrElse(a, b) == IF Truthy(a) THEN a ELSE b

(***************************************************************************)
(* Hashes.  An argument of validateHash is a record saying whether it is a *)
(* string and, when it is, its characters as a sequence of runs <<c, n>>:  *)
(* the character c repeated n times.                                       *)
(***************************************************************************)
HashLength == 43

Lower == {"a", "b", "c", "d", "e", "f", "g", "h", "i", "j", "k", "l", "m",
          "n", "o", "p", "q", "r", "s", "t", "u", "v", "w", "x", "y", "z"}
Upper == {"A", "B", "C", "D", "E", "F", "G", "H", "I", "J", "K", "L", "M",
          "N", "O", "P", "Q", "R", "S", "T", "U", "V", "W", "X", "Y", "Z"}
Digit == {"0", "1", "2", "3", "4", "5", "6", "7", "8", "9"}

\* the character class [a-z0-9_-] under the flag i
HashChars == Lower \cup Upper \cup Digit \cup {"_", "-"}

Str(runs) == [isString |-> TRUE, chars |-> runs]
Rep(c, n) == <<<<c, n>>>>

\* hash.length
RECURSIVE StrLen(_)
StrLen(runs) == IF runs = <<>> THEN 0 ELSE runs[1][2] + StrLen(Tail(runs))

\* /^[a-z0-9_-]{43}$/i.test(hash), after the typeof check
validateHash(hash) ==
  /\ hash.isString
  /\ StrLen(hash.chars) = HashLength
  /\ \A k \in 1..Len(hash.chars) : hash.chars[k][2] > 0 => hash.chars[k][1] \in HashChars

TokenA == Str(Rep("A", HashLength))
TokenB == Str(Rep("b", HashLength))
TokenC == Str(Rep("_", 1) \o Rep("-", 1) \o Rep("9", 1) \o Rep("c", HashLength - 3))
ShortHash == Str(Rep("A", HashLength - 1))
LongHash == Str(Rep("A", HashLength + 1))
BadCharHash == Str(Rep("!", 1) \o Rep("A", HashLength - 1))
NotAString == [isString |-> FALSE, chars |-> <<>>]

\* "aLemOhg9OGovn-0o4cOCbueiHT9VgdYnpJpq7NgMA1A"
EXCHANGE_WALLET ==
  Str(Rep("a", 1) \o Rep("L", 1) \o Rep("e", 1) \o Rep("m", 1) \o Rep("O", 1)
      \o Rep("h", 1) \o Rep("g", 1) \o Rep("9", 1) \o Rep("O", 1) \o Rep("G", 1)
      \o Rep("o", 1) \o Rep("v", 1) \o Rep("n", 1) \o Rep("-", 1) \o Rep("0", 1)
      \o Rep("o", 1) \o Rep("4", 1) \o Rep("c", 1) \o Rep("O", 1) \o Rep("C", 1)
      \o Rep("b", 1) \o Rep("u", 1) \o Rep("e", 1) \o Rep("i", 1) \o Rep("H", 1)
      \o Rep("T", 1) \o Rep("9", 1) \o Rep("V", 1) \o Rep("g", 1) \o Rep("d", 1)
      \o Rep("Y", 1) \o Rep("n", 1) \o Rep("p", 1) \o Rep("J", 1) \o Rep("p", 1)
      \o Rep("q", 1) \o Rep("7", 1) \o Rep("N", 1) \o Rep("g", 1) \o Rep("M", 1)
      \o Rep("A", 1) \o Rep("1", 1) \o Rep("A", 1))

(***************************************************************************)
(* The CLOB contract state and the order book read.                        *)
(***************************************************************************)
OrderPrices == {Zero, Frac(1, 2), Num(2)}
OrderTemplates ==
  [token : {TokenA, TokenB}, price : OrderPrices, quantity : {Num(q) : q \in 1..MaxQty}]

\* the orders of a pair, the order at position k carrying the id k
WithIds(b) ==
  [k \in 1..Len(b) |-> [id |-> k, token |-> b[k].token, price |-> b[k].price,
                         quantity |-> b[k].quantity]]
Books == {WithIds(b) : b \in UNION {[1..n -> OrderTemplates] : n \in 0..MaxOrders}}

OtherPairOrder == [id |-> 100, token |-> TokenC, price |-> Num(2), quantity |-> Num(1)]

\* states of the CLOB contract: the pair (A, B) with a book, and the pair (B, C)
ClobStates ==
  { [pairs |-> << [pair |-> <<TokenA, TokenB>>, orders |-> b],
                  [pair |-> <<TokenB, TokenC>>, orders |-> <<OtherPairOrder>>] >>] :
      b \in Books }

Includes(seq, x) == \E k \in 1..Len(seq) : seq[k] = x

RECURSIVE FlatMapOrders(_)
FlatMapOrders(pairs) ==
  IF pairs = <<>> THEN <<>>
  ELSE [k \in 1..Len(pairs[1].orders) |->
          [id |-> pairs[1].orders[k].id,
           token |-> pairs[1].orders[k].token,
           price |-> pairs[1].orders[k].price,
           quantity |-> pairs[1].orders[k].quantity,
           pair |-> pairs[1].pair]]
       \o FlatMapOrders(Tail(pairs))

NoInput == [kind |-> "none"]
TokenInput(id) == [kind |-> "string", id |-> id]
PairInput(a, b) == [kind |-> "pair", pair |-> <<a, b>>]

\* !input: the argument was omitted or is the empty string
NotGiven(in) == in.kind = "none" \/ (in.kind = "string" /\ in.id.chars = <<>>)

\* mutant: one token of the pair is enough
MatchesInput_either(in, order) ==
  IF in.kind = "string" THEN Includes(order.pair, in.id)
  ELSE Includes(order.pair, in.pair[1]) \/ Includes(order.pair, in.pair[2])

\* whether an order of allOrders passes the filter of getOrderBook
MatchesInput(in, order) ==
  IF in.kind = "string" THEN Includes(order.pair, in.id)
  ELSE Includes(order.pair, in.pair[1]) /\ Includes(order.pair, in.pair[2])

\* Exchange.getOrderBook on a fetched contract state
getOrderBook(clobContractState, in) ==
  LET allOrders == FlatMapOrders(clobContractState.pairs)
  IN  IF NotGiven(in) THEN allOrders
      ELSE SelectSeq(allOrders, LAMBDA order : MatchesInput(in, order))

(***************************************************************************)
(* Exchange.estimateSwap.                                                  *)
(***************************************************************************)
\* seq.reduce((a, b) => a + b, 0)
RECURSIVE SumSeq(_)
SumSeq(seq) ==
  IF seq = <<>> THEN Zero
  ELSE Add(SumSeq(SubSeq(seq, 1, Len(seq) - 1)), seq[Len(seq)])

validPair(p) == validateHash(p.from) /\ validateHash(p.to)

\* mutant: the check is "amount < 0"
validAmount_acceptsZero(a) == ~Gt(Zero, a)

\* the amount passes "if (amount <= 0) throw"
validAmount(a) == ~Leq(a, Zero)

\* (order) => pair.from !== order.token
isReverse(p, order) == p.from # order.token

\* the same-direction orders: those whose id no reverse order carries
sameDirection(book, reverse) ==
  SelectSeq(book, LAMBDA order : ~\E k \in 1..Len(reverse) : reverse[k].id = order.id)

\* allPrices.reduce((a, b) => a + b, 0) / allPrices.length
average(orders) ==
  Div(SumSeq([k \in 1..Len(orders) |-> orders[k].price]), Num(Len(orders)))

\* price && order.price !== price
skipOrder(p, order) == Truthy(p) /\ order.price # p

\* mutant: the limit price is left out of the comparison
isLastOrder_ignoresLimit(remaining, p, order) ==
  Leq(Mul(remaining, Inv(order.price)), order.quantity)

\* remainingQuantity * (price ?? reversePrice) <= order.quantity
isLastOrder(remaining, p, order) ==
  Leq(Mul(remaining, Coalesce(p, Inv(order.price))), order.quantity)

\* the loop is left when remainingQuantity <= 0
loopBreaks(remaining) == Leq(remaining, Zero)

\* mutant: the test is "remainingQuantity !== 0"
restOf_nonZero(remaining, p, avg) ==
  IF remaining # Zero THEN Mul(remaining, OrElse(p, avg)) ELSE Undefined

\* the rest of the result, from the values after the loop
restOf(remaining, p, avg) ==
  IF Gt(remaining, Zero) THEN Mul(remaining, OrElse(p, avg)) ELSE Undefined

PairInputs ==
  { [from |-> TokenA, to |-> TokenB], [from |-> TokenB, to |-> TokenA],
    [from |-> ShortHash, to |-> TokenB], [from |-> TokenA, to |-> LongHash],
    [from |-> BadCharHash, to |-> TokenB], [from |-> TokenA, to |-> NotAString] }
Amounts == {Num(k) : k \in -1..MaxAmount} \cup {Frac(1, 2)}
LimitPrices == {Undefined, Zero, Frac(1, 2), Num(2)}

InvalidPairMessage == "Invalid ID in pair. Must be a valid SmartWeave contract ID"
InvalidAmountMessage == "Amount must be greater than 0"

EstimateDefaults ==
  /\ pairOrderbook = <<>>
  /\ reverseOrders = <<>>
  /\ avgPrice = Undefined
  /\ immediate = Zero
  /\ remainingQuantity = Zero
  /\ idx = 0
  /\ rest = Undefined
WeightedDefaults ==
  /\ input = <<>>
  /\ r = Zero
  /\ sum = Zero
  /\ keyIdx = 0
  /\ selected = Undefined
  /\ viaFallback = FALSE

\* common/exchange.ts 166, exchange.ts 140: the null of a swap without order
NoOrder == "null"

SwapDefaults ==
  /\ version = "none"
  /\ calls = <<>>
  /\ orderID = NoOrder
FeeDefaults ==
  /\ token = Undefined
  /\ feeTarget = "none"
  /\ fees = <<>>
  /\ state = Undefined
  /\ fetched = Undefined
  /\ height = 0
QueryDefaults ==
  /\ hashArg = Undefined
  /\ query = Undefined
  /\ clob = Undefined
  /\ result = Undefined
  /\ posts = <<>>
LedgerDefaults ==
  /\ ledger = <<>>
  /\ cursor = 0
  /\ orderEdges = <<>>
  /\ between = Undefined
  /\ transferTxs = <<>>
  /\ matched = <<>>
  /\ validOrderQuantities = <<>>
  /\ history = <<>>
  /\ high = 0
ConcurrentDefaults ==
  /\ procs = <<>>
  /\ slots = <<>>
OtherDefaults == FeeDefaults /\ webhook = "none" /\ transfer = Undefined /\ orderInput = Undefined /\ LedgerDefaults /\ QueryDefaults /\ ConcurrentDefaults

InitEstimate ==
  /\ op = "estimateSwap"
  /\ pc = "es_validate"
  /\ pair \in PairInputs
  /\ amount \in Amounts
  /\ price \in LimitPrices
  /\ stateReads = 0
  /\ error = ""
  /\ EstimateDefaults
  /\ WeightedDefaults
  /\ SwapDefaults
  /\ OtherDefaults

\* lines 301-311: the two validations, before anything is fetched
estimateSwap_validate ==
  /\ pc = "es_validate"
  /\ IF ~validPair(pair)
       THEN pc' = "es_error" /\ error' = InvalidPairMessage
     ELSE IF ~validAmount(amount)
       THEN pc' = "es_error" /\ error' = InvalidAmountMessage
     ELSE pc' = "es_fetch" /\ error' = error
  /\ UNCHANGED <<op, pair, amount, price, stateReads>>
  /\ UNCHANGED <<estimateVars, weightedVars, swapVars, feeVars, webhook, queryVars,
                 result, concurrentVars, ledgerVars, priceVars>>

\* lines 313-328: the order book read and what is derived from it
estimateSwap_fetch ==
  /\ pc = "es_fetch"
  /\ \E clobContractState \in ClobStates :
       LET book == getOrderBook(clobContractState, PairInput(pair.from, pair.to))
           reverse == SelectSeq(book, LAMBDA order : isReverse(pair, order))
       IN  /\ pairOrderbook' = book
           /\ reverseOrders' = reverse
           /\ avgPrice' = average(sameDirection(book, reverse))
  /\ stateReads' = stateReads + 1
  /\ immediate' = Zero
  /\ remainingQuantity' = amount
  /\ idx' = 1
  /\ pc' = "es_loop"
  /\ UNCHANGED <<op, pair, amount, price, rest, error>>
  /\ UNCHANGED <<weightedVars, swapVars, feeVars, webhook, queryVars,
                 result, concurrentVars, ledgerVars, priceVars>>

\* lines 331-358: one pass of the for-of loop (or its end)
estimateSwap_loop ==
  /\ pc = "es_loop"
  /\ IF idx > Len(reverseOrders) \/ loopBreaks(remainingQuantity)
       THEN /\ pc' = "es_rest"
            /\ UNCHANGED <<immediate, remainingQuantity, idx>>
     ELSE LET order == reverseOrders[idx]
              reversePrice == Inv(order.price)
          IN  IF skipOrder(price, order)
                THEN /\ idx' = idx + 1
                     /\ UNCHANGED <<pc, immediate, remainingQuantity>>
              ELSE IF isLastOrder(remainingQuantity, price, order)
                THEN /\ immediate' = Add(immediate, Mul(remainingQuantity, reversePrice))
                     /\ remainingQuantity' = Zero
                     /\ pc' = "es_rest"
                     /\ UNCHANGED idx
              ELSE /\ immediate' = Add(immediate, order.quantity)
                   /\ remainingQuantity' =
                        Sub(remainingQuantity, Mul(order.quantity, order.price))
                   /\ idx' = idx + 1
                   /\ UNCHANGED pc
  /\ UNCHANGED <<op, pair, amount, price, stateReads, pairOrderbook, reverseOrders,
                 avgPrice, rest, error>>
  /\ UNCHANGED <<weightedVars, swapVars, feeVars, webhook, queryVars,
                 result, concurrentVars, ledgerVars, priceVars>>

\* lines 360-372: the rest and the return
estimateSwap_return ==
  /\ pc = "es_rest"
  /\ rest' = restOf(remainingQuantity, price, avgPrice)
  /\ pc' = "es_done"
  /\ UNCHANGED <<op, pair, amount, price, stateReads, pairOrderbook, reverseOrders,
                 avgPrice, immediate, remainingQuantity, idx, error>>
  /\ UNCHANGED <<weightedVars, swapVars, feeVars, webhook, queryVars,
                 result, concurrentVars, ledgerVars, priceVars>>

NextEstimate ==
  \/ estimateSwap_validate
  \/ estimateSwap_fetch
  \/ estimateSwap_loop
  \/ estimateSwap_return

SpecEstimate == InitEstimate /\ [][NextEstimate]_vars

(***************************************************************************)
(* Properties of estimateSwap.                                             *)
(***************************************************************************)
\* The walk as the specification words it: a limit price that was supplied
\* (whatever its value) restricts the walk to the orders at exactly that price.
RECURSIVE RefWalk(_, _, _, _)
RefWalk(orders, remaining, imm, limit) ==
  IF orders = <<>> \/ Leq(remaining, Zero)
    THEN [immediate |-> imm, remaining |-> remaining]
  ELSE LET order == Head(orders)
           reversePrice == Div(Num(1), order.price)
       IN  IF limit # Undefined /\ order.price # limit
             THEN RefWalk(Tail(orders), remaining, imm, limit)
           ELSE IF Leq(Mul(remaining, IF limit = Undefined THEN reversePrice ELSE limit),
                       order.quantity)
             THEN [immediate |-> Add(imm, Mul(remaining, reversePrice)),
                   remaining |-> Zero]
           ELSE RefWalk(Tail(orders),
                        Sub(remaining, Mul(order.quantity, order.price)),
                        Add(imm, order.quantity), limit)

\* the reverse orders a swap with this limit price may match
MatchingOrders(orders, limit) ==
  SelectSeq(orders, LAMBDA order : limit = Undefined \/ order.price = limit)

\* sum of quantity * price over the orders
Depth(orders) ==
  SumSeq([k \in 1..Len(orders) |-> Mul(orders[k].quantity, orders[k].price)])

EstimateDone == op = "estimateSwap" /\ pc = "es_done"

\* C1: estimateSwap returns what the reference walk returns, for every input:
\* the same immediate and the same remaining amount.
C1_EqualsReferenceWalk ==
  EstimateDone =>
    LET ref == RefWalk(reverseOrders, amount, Zero, price)
    IN  immediate = ref.immediate /\ remainingQuantity = ref.remaining

\* C2: when the matching reverse orders hold at least amount (sum of
\* quantity * price), rest is absent and immediate is the sum of the walk.
C2_DeepBookFillsAll ==
  (EstimateDone /\ Leq(amount, Depth(MatchingOrders(reverseOrders, price)))) =>
    /\ rest = Undefined
    /\ immediate = RefWalk(reverseOrders, amount, Zero, price).immediate

\* a deep book under a limit price, two orders consumed, the second over-consumed
C2_Witness ==
  /\ EstimateDone
  /\ Leq(amount, Depth(MatchingOrders(reverseOrders, price)))
  /\ price = Num(2)
  /\ idx = 3
  /\ immediate = Num(2)

\* C3: rest is present exactly when remaining > 0 after the walk, and is then
\* remaining * (price || avgPrice); with remaining 0 or negative it is absent.
C3_RestIffRemaining ==
  EstimateDone =>
    IF Gt(remainingQuantity, Zero)
      THEN /\ rest # Undefined
           /\ rest = Mul(remainingQuantity,
                         IF price = Undefined \/ price = Zero THEN avgPrice ELSE price)
      ELSE rest = Undefined

\* an over-consumed order: remaining ended negative and rest is absent
C3_Witness ==
  /\ EstimateDone
  /\ Gt(Zero, remainingQuantity)
  /\ rest = Undefined

\* a book exhausted early: rest is priced at the average of the other side
C3_WitnessRest ==
  /\ EstimateDone
  /\ Gt(remainingQuantity, Zero)
  /\ price = Undefined
  /\ IsFinite(rest)

\* C4: with no reverse orders, immediate is 0 and rest is amount * price when
\* a limit price is given; without a price and without same-direction orders
\* rest is NaN.
C4_EmptyReverseBook ==
  (EstimateDone /\ reverseOrders = <<>>) =>
    /\ immediate = Zero
    /\ price # Undefined => rest = Mul(amount, price)
    /\ (price = Undefined /\ pairOrderbook = <<>>) => rest = NaN

\* C5: under a supplied limit price (0 included) a pass of the loop over an
\* order at another price changes neither immediate nor remaining.
C5_OnlyExactPriceParticipates ==
  [][(/\ op = "estimateSwap"
      /\ pc = "es_loop"
      /\ idx <= Len(reverseOrders)
      /\ price # Undefined
      /\ reverseOrders[idx].price # price)
     => (immediate' = immediate /\ remainingQuantity' = remainingQuantity)]_vars

\* C6: with an invalid pair.from or pair.to, or amount <= 0, estimateSwap ends
\* in an error and never reads the order book.
C6_RejectsBeforeRead ==
  (op = "estimateSwap"
   /\ (~validateHash(pair.from) \/ ~validateHash(pair.to) \/ Leq(amount, Zero))) =>
    /\ pc \in {"es_validate", "es_error"}
    /\ stateReads = 0
    /\ pc = "es_error" => error # ""

\* a valid pair with amount 0 was rejected
C6_Witness ==
  /\ op = "estimateSwap"
  /\ pc = "es_error"
  /\ pair = [from |-> TokenA, to |-> TokenB]
  /\ amount = Zero
  /\ error = InvalidAmountMessage
  /\ stateReads = 0

(***************************************************************************)
(* Utils.weightedRandom (the same code as Verto.weightedRandom).           *)
(* A weight map is the sequence of its entries in the order of             *)
(* Object.keys: the keys are addresses, which keep their insertion order.  *)
(***************************************************************************)
KeyLetters == <<"A", "W", "b", "c", "d", "e", "f", "g">>

\* the key at position k of a map; the second one is the exchange wallet itself
KeyAt(k) == IF k = 2 THEN EXCHANGE_WALLET ELSE Str(Rep(KeyLetters[k], HashLength))

Weights == {Frac(k, Grid) : k \in -1..Grid} \cup {NaN}
Draws == {Frac(k, Grid) : k \in 0..(Grid - 1)}
WeightMaps ==
  { [k \in 1..Len(ws) |-> [key |-> KeyAt(k), weight |-> ws[k]]] :
      ws \in UNION {[1..n -> Weights] : n \in 0..MaxKeys} }

\* mutant: the sum is overwritten instead of accumulated
runningSum_reset(s, weight) == weight

\* sum += input[key]
runningSum(s, weight) == Add(s, weight)

\* mutant: the comparison is "r < sum"
isSelected_strict(draw, s, weight) == Gt(s, draw) /\ Gt(weight, Zero)

\* mutant: the weight of the key is not looked at
isSelected_anyWeight(draw, s, weight) == Leq(draw, s)

\* r <= sum && input[key] > 0
isSelected(draw, s, weight) == Leq(draw, s) /\ Gt(weight, Zero)

InitWeighted ==
  /\ op = "weightedRandom"
  /\ pc = "wr_loop"
  /\ input \in WeightMaps
  /\ r \in Draws
  /\ sum = Zero
  /\ keyIdx = 1
  /\ selected = Undefined
  /\ viaFallback = FALSE
  /\ pair = [from |-> TokenA, to |-> TokenB]
  /\ amount = Zero
  /\ price = Undefined
  /\ stateReads = 0
  /\ error = ""
  /\ EstimateDefaults
  /\ SwapDefaults
  /\ OtherDefaults

\* lines 572-577: one pass of the loop over Object.keys(input)
weightedRandom_loop ==
  /\ pc = "wr_loop"
  /\ keyIdx <= Len(input)
  /\ sum' = runningSum(sum, input[keyIdx].weight)
  /\ IF isSelected(r, sum', input[keyIdx].weight)
       THEN /\ selected' = input[keyIdx].key
            /\ pc' = "wr_done"
            /\ UNCHANGED keyIdx
       ELSE /\ keyIdx' = keyIdx + 1
            /\ UNCHANGED <<selected, pc>>
  /\ UNCHANGED <<op, pair, amount, price, stateReads, error, input, r, viaFallback>>
  /\ UNCHANGED <<estimateVars, swapVars, feeVars, webhook, queryVars,
                 result, concurrentVars, ledgerVars, priceVars>>

\* line 579: the return after the loop
weightedRandom_fallback ==
  /\ pc = "wr_loop"
  /\ keyIdx > Len(input)
  /\ selected' = EXCHANGE_WALLET
  /\ viaFallback' = TRUE
  /\ pc' = "wr_done"
  /\ UNCHANGED <<op, pair, amount, price, stateReads, error, input, r, sum, keyIdx>>
  /\ UNCHANGED <<estimateVars, swapVars, feeVars, webhook, queryVars,
                 result, concurrentVars, ledgerVars, priceVars>>

NextWeighted ==
  \/ weightedRandom_loop
  \/ weightedRandom_fallback

SpecWeighted == InitWeighted /\ [][NextWeighted]_vars

(***************************************************************************)
(* Properties of weightedRandom.                                           *)
(***************************************************************************)
WeightedDone == op = "weightedRandom" /\ pc = "wr_done"

\* the cumulative sum of the first k weights
Cumulative(k) == SumSeq([j \in 1..k |-> input[j].weight])

\* position k is one at which the draw is within the cumulative sum and the
\* key's own weight is positive
Eligible(k) == Leq(r, Cumulative(k)) /\ Gt(input[k].weight, Zero)

\* C8: the result is a function of the map (in key order) and the draw: the
\* first key at which r <= cumulative sum and the key's own weight is > 0.
C8_FirstEligibleKey ==
  (WeightedDone /\ \E k \in 1..Len(input) : Eligible(k)) =>
    LET first == CHOOSE k \in 1..Len(input) :
                   Eligible(k) /\ \A j \in 1..(k - 1) : ~Eligible(j)
    IN  selected = input[first].key /\ ~viaFallback

\* the draw is within the cumulative sum at a zero-weight key, which is passed
\* over; the next key is returned
C8_Witness ==
  /\ WeightedDone
  /\ Len(input) = 3
  /\ keyIdx = 3
  /\ selected = input[3].key
  /\ input[2].weight = Zero
  /\ Leq(r, Cumulative(2))

\* C9: for every map and draw the call ends without an error, with a key of
\* the map whose weight is > 0 or with the fallback; the empty map gives the
\* fallback.
C9_KeyOrFallback ==
  op = "weightedRandom" =>
    /\ error = ""
    /\ pc \in {"wr_loop", "wr_done"}
    /\ pc = "wr_loop" => keyIdx <= Len(input) + 1
    /\ pc = "wr_done" =>
         /\ \/ selected = EXCHANGE_WALLET
            \/ \E k \in 1..Len(input) :
                 input[k].key = selected /\ Gt(input[k].weight, Zero)
         /\ input = <<>> => selected = EXCHANGE_WALLET

\* a map of zero, negative and NaN weights only ended in the fallback
C9_Witness ==
  /\ WeightedDone
  /\ Len(input) = 3
  /\ input[1].weight = Zero
  /\ Gt(Zero, input[2].weight)
  /\ IsNaN(input[3].weight)
  /\ selected = EXCHANGE_WALLET

\* the empty map ended in the fallback
C9_WitnessEmpty == WeightedDone /\ input = <<>> /\ selected = EXCHANGE_WALLET

NonNegative(k) == Leq(Zero, input[k].weight)

\* C10: for non-negative weights, one of them positive, and a draw in [0, 1),
\* the return after the loop (the fallback) is taken exactly when r is
\* greater than the sum of all weights.
C10_FallbackIffBeyondSum ==
  (/\ WeightedDone
   /\ \A k \in 1..Len(input) : NonNegative(k)
   /\ \E k \in 1..Len(input) : Gt(input[k].weight, Zero)) =>
    (viaFallback <=> Gt(r, Cumulative(Len(input))))

\* weights summing to less than the draw: the fallback was hit
C10_Witness ==
  /\ WeightedDone
  /\ Len(input) = 2
  /\ \A k \in 1..Len(input) : Gt(input[k].weight, Zero)
  /\ Cumulative(2) = Frac(1, 2)
  /\ r = Frac(3, 4)
  /\ viaFallback

(***************************************************************************)
(* Utils.createFee and Utils.selectWeightedHolder.  The state of the       *)
(* exchange token holds the map balances (entries [key, balance] in key    *)
(* order) and the map vault (entries [key, locks] in key order, a lock     *)
(* being [balance, start, end]).                                           *)
(***************************************************************************)
\* 0.005
EXCHANGE_FEE == Frac(5, 1000)

\* Math.floor
Floor(x) ==
  IF x = Undefined THEN NaN
  ELSE IF x[2] = 0 THEN x
  ELSE Num(x[1] \div x[2])

\* Math.ceil
Ceil(x) ==
  IF x = Undefined THEN NaN
  ELSE IF x[2] = 0 THEN x
  ELSE Num(-((-x[1]) \div x[2]))

\* mutant: the fee is rounded down
feeQuantity_floor(a) == Floor(Mul(Floor(a), EXCHANGE_FEE))

\* Math.ceil(Math.ceil(amount) * this.EXCHANGE_FEE)
feeQuantity(a) == Ceil(Mul(Ceil(a), EXCHANGE_FEE))

\* a number inside JSON.stringify: NaN and the infinities are written as null
JsonNumber(x) == IF IsFinite(x) THEN x ELSE "null"

\* the value of the tag Type
feeType(tgt) == IF tgt = "token_holder" THEN "Fee-VRT-Holder" ELSE "Fee-Exchange"

\* mutant: the Input tag always names the exchange wallet
FeeTransaction_inputWallet(a, tok, order, tgt, target) ==
  [target |-> target,
   tags |-> [Exchange |-> "Verto",
             Type |-> feeType(tgt),
             Order |-> order,
             Contract |-> tok,
             Input |-> [function |-> "transfer",
                        target |-> EXCHANGE_WALLET,
                        qty |-> JsonNumber(feeQuantity(a))]]]

\* the transaction createFee builds, signs and posts
FeeTransaction(a, tok, order, tgt, target) ==
  [target |-> target,
   tags |-> [Exchange |-> "Verto",
             Type |-> feeType(tgt),
             Order |-> order,
             Contract |-> tok,
             Input |-> [function |-> "transfer",
                        target |-> target,
                        qty |-> JsonNumber(feeQuantity(a))]]]

\* whether the map holds the key
HasKey(map, key) == \E k \in 1..Len(map) : map[k].key = key

\* the first loop: totalTokens += state.balances[addr]
totalOfBalances(balances) ==
  SumSeq([k \in 1..Len(balances) |-> balances[k].balance])

\* state.vault[addr].map((a) => a.balance).reduce((a, b) => a + b, 0)
vaultBalance(locks) == SumSeq([k \in 1..Len(locks) |-> locks[k].balance])

\* mutant: the vaulted tokens are left out of the total
totalOfVault_none(vault) == Zero

\* the second loop, its additions to totalTokens
RECURSIVE totalOfVault(_)
totalOfVault(vault) ==
  IF vault = <<>> THEN Zero
  ELSE Add(totalOfVault(SubSeq(vault, 1, Len(vault) - 1)),
           IF Len(vault[Len(vault)].locks) = 0 THEN Zero
           ELSE vaultBalance(vault[Len(vault)].locks))

\* the second loop, its writes to state.balances: an address of the vault
\* with locks has their sum added to its balance, or gets a new entry
RECURSIVE mergeVault(_, _)
mergeVault(balances, vault) ==
  IF vault = <<>> THEN balances
  ELSE LET addr == vault[1].key
           locks == vault[1].locks
           merged ==
             IF Len(locks) = 0 THEN balances
             ELSE IF HasKey(balances, addr)
               THEN [k \in 1..Len(balances) |->
                       IF balances[k].key = addr
                         THEN [key |-> addr,
                               balance |-> Add(balances[k].balance, vaultBalance(locks))]
                       ELSE balances[k]]
             ELSE Append(balances, [key |-> addr, balance |-> vaultBalance(locks)])
       IN  mergeVault(merged, Tail(vault))

\* the third loop: weighted[addr] = state.balances[addr] / totalTokens
weightedOf(balances, totalTokens) ==
  [k \in 1..Len(balances) |->
     [key |-> balances[k].key, weight |-> Div(balances[k].balance, totalTokens)]]

\* the map selectWeightedHolder hands to weightedRandom, from a fetched state
holderWeights(st) ==
  weightedOf(mergeVault(st.balances, st.vault),
             Add(totalOfBalances(st.balances), totalOfVault(st.vault)))

\* weightedRandom as a function of the map and the draw
RECURSIVE weightedRandomFrom(_, _, _, _)
weightedRandomFrom(in, draw, k, s) ==
  IF k > Len(in) THEN EXCHANGE_WALLET
  ELSE LET s2 == runningSum(s, in[k].weight)
       IN  IF isSelected(draw, s2, in[k].weight) THEN in[k].key
           ELSE weightedRandomFrom(in, draw, k + 1, s2)

weightedRandom(in, draw) == weightedRandomFrom(in, draw, 1, Zero)

MaxBalance == 2    \* largest direct balance of a holder
MaxLocks == 2      \* locks in the vault of one address

Heights == {2}
LockTemplates ==
  { [balance |-> Num(1), start |-> 0, end |-> 1],      \* unlock height passed
    [balance |-> Num(2), start |-> 0, end |-> 3] }     \* still locked
Locks == UNION {[1..n -> LockTemplates] : n \in 0..MaxLocks}
BalanceMaps ==
  { [k \in 1..Len(bs) |-> [key |-> KeyAt(2 * k - 1), balance |-> Num(bs[k])]] :
      bs \in UNION {[1..n -> 0..MaxBalance] : n \in 0..2} }
VaultMaps ==
  { [k \in 1..Len(ls) |-> [key |-> KeyAt(k + 2), locks |-> ls[k]]] :
      ls \in UNION {[1..n -> Locks] : n \in 0..2} }
HolderStates == [balances : BalanceMaps, vault : VaultMaps]
FeeAmounts == {Frac(1, 2), Num(200), Frac(401, 2)}

InitFee ==
  /\ op = "createFee"
  /\ pc = "cf_target"
  /\ amount \in FeeAmounts
  /\ token = TokenA
  /\ orderID = "order"
  /\ feeTarget \in {"exchange", "token_holder"}
  /\ fees = <<>>
  /\ state = Undefined
  /\ fetched = Undefined
  /\ height \in Heights
  /\ pair = [from |-> TokenA, to |-> TokenB]
  /\ price = Undefined
  /\ stateReads = 0
  /\ error = ""
  /\ version = "none"
  /\ calls = <<>>
  /\ webhook = "none" /\ transfer = Undefined /\ orderInput = Undefined /\ LedgerDefaults
  /\ EstimateDefaults
  /\ WeightedDefaults
  /\ QueryDefaults
  /\ ConcurrentDefaults

FeeFrame ==
  UNCHANGED <<op, pair, amount, price, estimateVars, swapVars, token, feeTarget,
              height, webhook, queryVars, concurrentVars, ledgerVars, priceVars, sum, keyIdx>>

\* utils.ts 69-72 with 525-561: the target of the fee; for a token holder
\* the state of the exchange token is read and a holder drawn
createFee_target ==
  /\ pc = "cf_target"
  /\ \/ /\ feeTarget = "exchange"
        /\ selected' = EXCHANGE_WALLET
        /\ pc' = "cf_post"
        /\ UNCHANGED <<stateReads, state, fetched, input, r, viaFallback, error>>
     \/ /\ feeTarget # "exchange"
        /\ stateReads' = stateReads + 1
        /\ \E st \in HolderStates, draw \in Draws :
             /\ fetched' = st
             /\ state' = [st EXCEPT !.balances = mergeVault(st.balances, st.vault)]
             /\ input' = holderWeights(st)
             /\ r' = draw
             /\ selected' = weightedRandom(holderWeights(st), draw)
        /\ pc' = "cf_post"
        /\ UNCHANGED <<viaFallback, error>>
     \/ /\ feeTarget # "exchange"
        /\ stateReads' = stateReads + 1
        /\ pc' = "cf_error"
        /\ error' = "getState failed"
        /\ UNCHANGED <<state, fetched, input, r, selected, viaFallback>>
  /\ UNCHANGED <<fees, result>>
  /\ FeeFrame

\* utils.ts 74-102: the transaction is built, tagged, signed and posted
createFee_post ==
  /\ pc = "cf_post"
  /\ \/ /\ fees' = Append(fees, FeeTransaction(amount, token, orderID, feeTarget, selected))
        /\ result' = "fee"
        /\ pc' = "cf_done"
        /\ error' = error
     \/ /\ pc' = "cf_error"
        /\ error' = "post failed"
        /\ UNCHANGED <<fees, result>>
  /\ UNCHANGED <<stateReads, state, fetched, input, r, selected, viaFallback>>
  /\ FeeFrame

NextFee ==
  \/ createFee_target
  \/ createFee_post

SpecFee == InitFee /\ [][NextFee]_vars

(***************************************************************************)
(* Exchange.swap, in its two revisions: "common" is                        *)
(* src/common/exchange.ts, "exchange" is src/exchange.ts.  The calls that  *)
(* leave the SDK (token transfer, contract interaction, fee transaction,   *)
(* webhook) are recorded in calls; each may fail.                          *)
(***************************************************************************)
SwapVersions == {"common", "exchange"}
SwapPrices == {Undefined, Num(2)}
SwapAmounts == Amounts \cup {Num(200), Frac(401, 2)}

\* the states of the exchange token a swap may read: those without a vault
SwapHolderStates == {st \in HolderStates : st.vault = <<>>}

\* the amount check of the revision: src/exchange.ts has none
swapAmountChecked(v) == v = "common"

InitSwap ==
  /\ op = "swap"
  /\ pc = "sw_validate"
  /\ version \in SwapVersions
  /\ pair \in PairInputs
  /\ amount \in SwapAmounts
  /\ price \in SwapPrices
  /\ calls = <<>>
  /\ orderID = NoOrder
  /\ stateReads = 0
  /\ error = ""
  /\ token = Undefined
  /\ feeTarget = "none"
  /\ fees = <<>>
  /\ state = Undefined
  /\ fetched = Undefined
  /\ height \in Heights
  /\ webhook = "none" /\ transfer = Undefined /\ orderInput = Undefined /\ LedgerDefaults
  /\ EstimateDefaults
  /\ WeightedDefaults
  /\ QueryDefaults
  /\ ConcurrentDefaults

SwapFrame ==
  UNCHANGED <<op, pair, amount, price, version, estimateVars, weightedVars,
              token, feeTarget, height, queryVars, concurrentVars, ledgerVars, priceVars>>

\* what the steps before the fees leave alone
SwapNoFee == UNCHANGED <<fees, state, fetched, webhook, result>>

\* what the steps other than the transfer and createOrder leave alone
SwapOrderKept == UNCHANGED <<transfer, orderInput>>

\* this.utils.CLOB_CONTRACT
CLOB_CONTRACT == "clob"

\* common 104-114, exchange 99-106: the validations
swap_validate ==
  /\ pc = "sw_validate"
  /\ IF ~validPair(pair)
       THEN pc' = "sw_error" /\ error' = InvalidPairMessage
     ELSE IF swapAmountChecked(version) /\ ~validAmount(amount)
       THEN pc' = "sw_error" /\ error' = InvalidAmountMessage
     ELSE pc' = "sw_transfer" /\ error' = error
  /\ UNCHANGED <<calls, orderID, stateReads>>
  /\ SwapNoFee
  /\ SwapOrderKept
  /\ SwapFrame

\* common 117-123, exchange 109-115: the transfer of the input tokens
swap_transfer ==
  /\ pc = "sw_transfer"
  /\ calls' = Append(calls, "transfer")
  /\ \/ /\ transfer' = [id |-> "transfer", qty |-> amount, token |-> pair.from,
                        target |-> CLOB_CONTRACT]
        /\ pc' = "sw_createOrder"
        /\ error' = error
     \/ pc' = "sw_error" /\ error' = "transfer failed" /\ transfer' = transfer
  /\ UNCHANGED <<orderID, stateReads, orderInput>>
  /\ SwapNoFee
  /\ SwapFrame

\* common 146-165, exchange 117-139: the createOrder interaction
swap_createOrder ==
  /\ pc = "sw_createOrder"
  /\ calls' = Append(calls, "createOrder")
  /\ orderInput' = [function |-> "createOrder", transaction |-> transfer.id,
                    pair |-> <<pair.from, pair.to>>, price |-> price]
  /\ \/ /\ pc' = IF version = "common" THEN "sw_sync" ELSE "sw_hooked"
        /\ error' = error
     \/ pc' = "sw_error" /\ error' = "createOrder failed"
  /\ UNCHANGED <<orderID, stateReads, transfer>>
  /\ SwapNoFee
  /\ SwapFrame

\* common 154-161: mining and the foreign call sync of both tokens
swap_sync ==
  /\ pc = "sw_sync"
  /\ calls' = Append(calls, "syncFCP")
  /\ \/ pc' = "sw_hooked" /\ error' = error
     \/ pc' = "sw_error" /\ error' = "syncFCP failed"
  /\ UNCHANGED <<orderID, stateReads>>
  /\ SwapNoFee
  /\ SwapOrderKept
  /\ SwapFrame

\* mutant: the null check is missing, the fees follow a failed createOrder
swap_hooked_unchecked ==
  /\ pc = "sw_hooked"
  /\ pc' = "sw_exchangeFee"
  /\ error' = error
  /\ orderID' \in {"order", NoOrder}
  /\ UNCHANGED <<calls, stateReads>>
  /\ SwapNoFee
  /\ SwapOrderKept
  /\ SwapFrame

\* common 116 and 166-168, exchange 108 and 140-142: what cacheContractHook
\* handed back becomes the order id
swap_hooked ==
  /\ pc = "sw_hooked"
  /\ \/ pc' = "sw_exchangeFee" /\ error' = error /\ orderID' = "order"
     \/ pc' = "sw_error" /\ error' = "Could not create order" /\ orderID' = orderID
  /\ UNCHANGED <<calls, stateReads>>
  /\ SwapNoFee
  /\ SwapOrderKept
  /\ SwapFrame

\* common 171, exchange 145: createFee(amount, pair.from, orderID, "exchange")
swap_exchangeFee ==
  /\ pc = "sw_exchangeFee"
  /\ calls' = Append(calls, "fee_exchange")
  /\ \/ /\ fees' = Append(fees, FeeTransaction(amount, pair.from, orderID, "exchange",
                                               EXCHANGE_WALLET))
        /\ pc' = "sw_holderFee"
        /\ error' = error
     \/ pc' = "sw_error" /\ error' = "fee failed" /\ fees' = fees
  /\ UNCHANGED <<orderID, stateReads, state, fetched, webhook, result>>
  /\ SwapOrderKept
  /\ SwapFrame

\* common 174, exchange 148: createFee(amount, pair.from, orderID, "token_holder"),
\* which reads the state of the exchange token to select the holder
swap_holderFee ==
  /\ pc = "sw_holderFee"
  /\ stateReads' = stateReads + 1
  /\ calls' = Append(calls, "fee_token_holder")
  /\ \E st \in SwapHolderStates, draw \in Draws :
       /\ fetched' = st
       /\ state' = [st EXCEPT !.balances = mergeVault(st.balances, st.vault)]
       /\ \/ /\ fees' = Append(fees, FeeTransaction(amount, pair.from, orderID,
                                    "token_holder",
                                    weightedRandom(holderWeights(st), draw)))
             /\ pc' = "sw_webhook"
             /\ error' = error
          \/ pc' = "sw_error" /\ error' = "fee failed" /\ fees' = fees
  /\ UNCHANGED <<orderID, webhook, result>>
  /\ SwapOrderKept
  /\ SwapFrame

\* common 176-184, exchange 150-153: the webhook request is sent (the common
\* revision first mines and asks whether this is a testnet, where it sends
\* nothing) and, without waiting for it, the order id is returned
swap_return ==
  /\ pc = "sw_webhook"
  /\ \/ /\ calls' = Append(calls, "webhook")
        /\ webhook' = "pending"
        /\ result' = orderID
        /\ pc' = "sw_done"
        /\ error' = error
     \/ /\ version = "common"
        /\ result' = orderID
        /\ pc' = "sw_done"
        /\ UNCHANGED <<calls, webhook, error>>
     \/ /\ version = "common"
        /\ pc' = "sw_error"
        /\ error' = "isTestnet failed"
        /\ UNCHANGED <<calls, webhook, result>>
  /\ UNCHANGED <<orderID, stateReads, fees, state, fetched>>
  /\ SwapOrderKept
  /\ SwapFrame

\* mutant: the request is awaited, its failure fails the swap
swap_webhookSettled_awaited ==
  /\ webhook = "pending"
  /\ \/ webhook' = "ok" /\ UNCHANGED <<pc, error, result>>
     \/ webhook' = "failed" /\ pc' = "sw_error" /\ error' = "webhook failed"
                            /\ result' = Undefined
  /\ UNCHANGED <<calls, orderID, stateReads, fees, state, fetched>>
  /\ SwapOrderKept
  /\ SwapFrame

\* common 181, exchange 151: the request ends, well or not; nobody listens
swap_webhookSettled ==
  /\ webhook = "pending"
  /\ webhook' \in {"ok", "failed"}
  /\ UNCHANGED <<pc, error, result, calls, orderID, stateReads, fees, state, fetched>>
  /\ SwapOrderKept
  /\ SwapFrame

NextSwap ==
  \/ swap_validate
  \/ swap_transfer
  \/ swap_createOrder
  \/ swap_sync
  \/ swap_hooked
  \/ swap_exchangeFee
  \/ swap_holderFee
  \/ swap_return
  \/ swap_webhookSettled

SpecSwap == InitSwap /\ [][NextSwap]_vars

(***************************************************************************)
(* Properties of swap.                                                     *)
(***************************************************************************)
\* C7: with an invalid pair.from or pair.to, or an amount that is not
\* positive, swap ends in an error before any external call: no transfer, no
\* createOrder, no fee, no webhook.
C7_SwapRejectsBeforeCalls ==
  (op = "swap"
   /\ (~validateHash(pair.from) \/ ~validateHash(pair.to) \/ ~Gt(amount, Zero))) =>
    /\ calls = <<>>
    /\ stateReads = 0
    /\ pc # "sw_done"

\* the positions of a call in the log
PositionsOf(call) == {k \in 1..Len(calls) : calls[k] = call}

\* C17: the webhook request of a swap is issued only after the order was
\* created and both fee transactions were posted; it is not awaited and not
\* repeated, and whether it succeeds or fails the swap returns the same
\* order id.
C17_WebhookBestEffort ==
  op = "swap" =>
    /\ webhook # "none" <=> PositionsOf("webhook") # {}
    /\ PositionsOf("webhook") # {} =>
         /\ PositionsOf("webhook") = {Len(calls)}
         /\ \E i, j, k \in 1..Len(calls) :
              /\ i < j /\ j < k /\ k < Len(calls)
              /\ calls[i] = "createOrder"
              /\ calls[j] = "fee_exchange"
              /\ calls[k] = "fee_token_holder"
         /\ Len(fees) = 2
         /\ pc = "sw_done"
         /\ error = ""
         /\ orderID = "order"
         /\ result = orderID

\* the request failed after the swap had returned the order id
C17_Witness ==
  /\ op = "swap"
  /\ webhook = "failed"
  /\ pc = "sw_done"
  /\ result = "order"
  /\ calls[Len(calls)] = "webhook"

\* the calls of the log that move tokens or create the order
OrderCalls ==
  SelectSeq(calls, LAMBDA c : c \in {"transfer", "createOrder", "fee_exchange",
                                     "fee_token_holder"})

\* C21: a swap that returned an order id has made, in this order and each
\* once, the transfer of amount to the CLOB contract, the createOrder
\* interaction naming that transfer, the exchange fee and the token-holder
\* fee, both fees tagged with the returned id; no fee call is made before
\* createOrder has succeeded.
C21_SwapCallOrder ==
  op = "swap" =>
    /\ pc = "sw_done" =>
         /\ OrderCalls = <<"transfer", "createOrder", "fee_exchange", "fee_token_holder">>
         /\ transfer.qty = amount
         /\ transfer.token = pair.from
         /\ transfer.target = CLOB_CONTRACT
         /\ orderInput.function = "createOrder"
         /\ orderInput.transaction = transfer.id
         /\ Len(fees) = 2
         /\ fees[1].tags.Type = "Fee-Exchange"
         /\ fees[2].tags.Type = "Fee-VRT-Holder"
         /\ result = "order"
         /\ \A k \in 1..Len(fees) : fees[k].tags.Order = result
    /\ PositionsOf("fee_exchange") \cup PositionsOf("fee_token_holder") # {} =>
         /\ orderID = "order"
         /\ \E c \in PositionsOf("createOrder") :
              \A f \in PositionsOf("fee_exchange") \cup PositionsOf("fee_token_holder") :
                c < f

\* a swap of the common revision went through every step
C21_Witness ==
  /\ op = "swap"
  /\ pc = "sw_done"
  /\ version = "common"
  /\ calls = <<"transfer", "createOrder", "syncFCP", "fee_exchange",
               "fee_token_holder", "webhook">>
  /\ result = "order"
  /\ Len(fees) = 2

\* the posted fee transactions of a type that carry the order's id
FeesOf(type, order) ==
  {k \in 1..Len(fees) : fees[k].tags.Type = type /\ fees[k].tags.Order = order}

\* C30: once a swap has finished, by returning or by throwing at any step,
\* the order it created has as many exchange-fee transactions as
\* token-holder-fee transactions: both fees are posted or neither.
C30_FeesBothOrNeither ==
  (op = "swap" /\ pc \in {"sw_done", "sw_error"}) =>
    Cardinality(FeesOf("Fee-Exchange", orderID)) =
      Cardinality(FeesOf("Fee-VRT-Holder", orderID))

\* C22: on a book holding a reverse order of price 0, with any amount and any
\* limit price (0 included), estimateSwap raises an error or returns a finite
\* immediate, never Infinity or NaN.
C22_ZeroPriceGuarded ==
  (EstimateDone /\ \E k \in 1..Len(reverseOrders) : reverseOrders[k].price = Zero) =>
    IsFinite(immediate)

\* the reverse orders all have a positive price
PositivePrices == \A k \in 1..Len(reverseOrders) : Gt(reverseOrders[k].price, Zero)

\* C27: with non-negative quantities and positive prices, no step of the walk
\* adds more to immediate than the quantity of the order it visits, with or
\* without a limit price.
C27_AddedAtMostQuantity ==
  [][(op = "estimateSwap" /\ pc = "es_loop" /\ PositivePrices
        /\ idx <= Len(reverseOrders)) =>
       Leq(Sub(immediate', immediate), reverseOrders[idx].quantity)]_vars

(***************************************************************************)
(* Utils.validateHash, in its two revisions: "utils" is src/utils.ts,      *)
(* "part_005" is the class Utils of unnamed/part_005.                      *)
(***************************************************************************)
Max(a, b) == IF a >= b THEN a ELSE b

\* the length of the longest run of characters of the class in the string
RECURSIVE LongestMatch(_, _, _)
LongestMatch(runs, current, best) ==
  IF runs = <<>> THEN Max(best, current)
  ELSE IF runs[1][1] \in HashChars
    THEN LongestMatch(Tail(runs), current + runs[1][2], best)
  ELSE LongestMatch(Tail(runs), IF runs[1][2] > 0 THEN 0 ELSE current,
                    Max(best, current))

\* part_005: /[a-z0-9_-]{43}/i.test(hash), after the typeof check: the
\* expression is not anchored, it matches anywhere in the string
validateHash_part005(h) ==
  /\ h.isString
  /\ LongestMatch(h.chars, 0, 0) >= HashLength

HashVersions == {"utils", "part_005"}

validateHashOf(v, h) == IF v = "utils" THEN validateHash(h) ELSE validateHash_part005(h)

MaxRuns == 2       \* runs of equal characters in a string

RunChars == {"a", "Z", "9", "_", "-", "!", " "}
RunLengths == {1, HashLength - 1, HashLength, HashLength + 1}
HashInputs ==
  {Str(runs) : runs \in UNION {[1..n -> RunChars \X RunLengths] : n \in 0..MaxRuns}}
    \cup {NotAString}

InitHash ==
  /\ op = "validateHash"
  /\ pc = "vh_call"
  /\ version \in HashVersions
  /\ hashArg \in HashInputs
  /\ result = Undefined
  /\ pair = [from |-> TokenA, to |-> TokenB]
  /\ amount = Zero
  /\ price = Undefined
  /\ stateReads = 0
  /\ error = ""
  /\ calls = <<>>
  /\ orderID = NoOrder
  /\ webhook = "none" /\ transfer = Undefined /\ orderInput = Undefined /\ LedgerDefaults
  /\ query = Undefined
  /\ clob = Undefined
  /\ posts = <<>>
  /\ EstimateDefaults
  /\ WeightedDefaults
  /\ FeeDefaults
  /\ ConcurrentDefaults

\* utils.ts 152-155, part_005 403-406
validateHash_call ==
  /\ pc = "vh_call"
  /\ result' = validateHashOf(version, hashArg)
  /\ pc' = "vh_done"
  /\ UNCHANGED <<op, pair, amount, price, stateReads, error, estimateVars, weightedVars,
                 swapVars, feeVars, webhook, queryVars, concurrentVars, ledgerVars, priceVars>>

NextHash == validateHash_call

SpecHash == InitHash /\ [][NextHash]_vars

(***************************************************************************)
(* Properties of validateHash.                                             *)
(***************************************************************************)
\* the characters of a string, one by one
RECURSIVE Expand(_)
Expand(runs) ==
  IF runs = <<>> THEN <<>>
  ELSE [i \in 1..runs[1][2] |-> runs[1][1]] \o Expand(Tail(runs))

\* C15: validateHash is true exactly for the strings of exactly 43 characters
\* of [A-Za-z0-9_-]: false for shorter and longer strings, for strings with
\* another character, and for what is not a string.
C15_ValidateHashExact ==
  (op = "validateHash" /\ pc = "vh_done") =>
    (result <=>
       /\ hashArg.isString
       /\ Len(Expand(hashArg.chars)) = 43
       /\ \A i \in 1..Len(Expand(hashArg.chars)) :
            Expand(hashArg.chars)[i] \in Lower \cup Upper \cup Digit \cup {"_", "-"})

(***************************************************************************)
(* Exchange.getOrderBook as an operation of its own.                       *)
(***************************************************************************)
EmptyString == Str(<<>>)
OrderBookInputs ==
  {NoInput}
    \cup {TokenInput(id) : id \in {TokenA, TokenB, TokenC, ShortHash, EmptyString}}
    \cup {PairInput(a, b) : a, b \in {TokenA, TokenB, TokenC}}

InitOrderBook ==
  /\ op = "getOrderBook"
  /\ pc = "ob_fetch"
  /\ query \in OrderBookInputs
  /\ clob = Undefined
  /\ result = Undefined
  /\ pair = [from |-> TokenA, to |-> TokenB]
  /\ amount = Zero
  /\ price = Undefined
  /\ stateReads = 0
  /\ error = ""
  /\ version = "none"
  /\ calls = <<>>
  /\ orderID = NoOrder
  /\ webhook = "none" /\ transfer = Undefined /\ orderInput = Undefined /\ LedgerDefaults
  /\ hashArg = Undefined
  /\ posts = <<>>
  /\ EstimateDefaults
  /\ WeightedDefaults
  /\ FeeDefaults
  /\ ConcurrentDefaults

\* lines 240-263: the state read, the flattening and the filter
getOrderBook_call ==
  /\ pc = "ob_fetch"
  /\ stateReads' = stateReads + 1
  /\ \/ \E clobContractState \in ClobStates :
          /\ clob' = clobContractState
          /\ result' = getOrderBook(clobContractState, query)
          /\ pc' = "ob_done"
          /\ error' = error
     \/ /\ pc' = "ob_error"
        /\ error' = "getState failed"
        /\ UNCHANGED <<clob, result>>
  /\ UNCHANGED <<op, pair, amount, price, estimateVars, weightedVars, swapVars,
                 feeVars, webhook, hashArg, query, posts, concurrentVars, ledgerVars, priceVars>>

NextOrderBook == getOrderBook_call

SpecOrderBook == InitOrderBook /\ [][NextOrderBook]_vars

(***************************************************************************)
(* Properties of getOrderBook.                                             *)
(***************************************************************************)
\* every order of the contract state, with the pair it stands under
AllOrdersOf(st) ==
  UNION { { [id |-> st.pairs[i].orders[j].id,
             token |-> st.pairs[i].orders[j].token,
             price |-> st.pairs[i].orders[j].price,
             quantity |-> st.pairs[i].orders[j].quantity,
             pair |-> st.pairs[i].pair] : j \in 1..Len(st.pairs[i].orders) } :
          i \in 1..Len(st.pairs) }

PairHolds(p, id) == p[1] = id \/ p[2] = id

\* the orders the claim names for the query
WantedOrders ==
  IF query.kind = "none" \/ (query.kind = "string" /\ query.id = EmptyString)
    THEN AllOrdersOf(clob)
  ELSE IF query.kind = "string"
    THEN {o \in AllOrdersOf(clob) : PairHolds(o.pair, query.id)}
  ELSE {o \in AllOrdersOf(clob) :
          PairHolds(o.pair, query.pair[1]) /\ PairHolds(o.pair, query.pair[2])}

OrderBookDone == op = "getOrderBook" /\ pc = "ob_done"

\* C16: getOrderBook returns all orders when no input is given, for a token
\* id the orders of the pairs that contain it, for a pair [a, b] the orders
\* of the pairs that contain both (the same for [b, a]); every returned
\* order carries the pair it belongs to.
C16_OrderBookFilter ==
  OrderBookDone =>
    /\ {result[k] : k \in 1..Len(result)} = WantedOrders
    /\ Len(result) = Cardinality(WantedOrders)
    /\ query.kind = "pair" =>
         result = getOrderBook(clob, PairInput(query.pair[2], query.pair[1]))

\* the pair was asked for in the reverse of the order the contract stores
\* it in; both orders of its book came back, and none of the other pair
C16_Witness ==
  /\ OrderBookDone
  /\ query = PairInput(TokenB, TokenA)
  /\ Len(result) = 2
  /\ \A k \in 1..Len(result) : result[k].pair = <<TokenA, TokenB>>
  /\ Cardinality(AllOrdersOf(clob)) = 3

(***************************************************************************)
(* Properties of the fees.                                                 *)
(***************************************************************************)
\* the smallest integer that is not below the finite number x
CeilRef(x) == CHOOSE n \in -2..500 : Leq(x, Num(n)) /\ Gt(x, Num(n - 1))

\* the quantity of the Input tag of a fee transaction
QtyOf(fee) == fee.tags.Input.qty

\* C11: every fee transfer of a swap carries the quantity
\* ceil(ceil(amount) * 0.005), and the exchange fee and the token-holder fee
\* of one swap carry the same quantity.
C11_FeeQuantity ==
  op = "swap" =>
    /\ \A k \in 1..Len(fees) :
         QtyOf(fees[k]) = Num(CeilRef(Mul(Num(CeilRef(amount)), Frac(5, 1000))))
    /\ Len(fees) = 2 => QtyOf(fees[1]) = QtyOf(fees[2])

\* a swap of 200.5 tokens posted both fees, each of 2
C11_Witness ==
  /\ op = "swap"
  /\ amount = Frac(401, 2)
  /\ Len(fees) = 2
  /\ fees[1].tags.Type = "Fee-Exchange"
  /\ fees[2].tags.Type = "Fee-VRT-Holder"
  /\ QtyOf(fees[1]) = Num(2)
  /\ QtyOf(fees[2]) = Num(2)

FeeDone == op = "createFee" /\ pc = "cf_done"

\* the holder the draw r selects from the map input: the first key at which
\* the draw is within the cumulative sum and the weight is positive, the
\* exchange wallet when there is none
HolderDrawn ==
  IF \E k \in 1..Len(input) : Eligible(k)
    THEN input[CHOOSE k \in 1..Len(input) :
                 Eligible(k) /\ \A j \in 1..(k - 1) : ~Eligible(j)].key
  ELSE EXCHANGE_WALLET

\* C12: createFee with target "exchange" pays the fixed exchange wallet and
\* reads no holder state; with target "token_holder" it pays the address the
\* weighted selection over the holders returned; the target of the
\* transaction is the target named in its Input tag.
C12_FeeTarget ==
  op = "createFee" =>
    /\ feeTarget = "exchange" =>
         stateReads = 0 /\ state = Undefined /\ fetched = Undefined
    /\ pc = "cf_done" =>
         /\ Len(fees) = 1
         /\ fees[1].target = fees[1].tags.Input.target
         /\ feeTarget = "exchange" => fees[1].target = EXCHANGE_WALLET
         /\ feeTarget = "token_holder" =>
              stateReads = 1 /\ fees[1].target = HolderDrawn

\* a token-holder fee went to a holder that is not the exchange wallet
C12_Witness ==
  /\ FeeDone
  /\ feeTarget = "token_holder"
  /\ Len(fees) = 1
  /\ fees[1].target # EXCHANGE_WALLET
  /\ fees[1].target = fees[1].tags.Input.target
  /\ stateReads = 1

\* the direct balance of an address in the state the contract held
RefDirect(addr) ==
  IF HasKey(fetched.balances, addr)
    THEN (CHOOSE e \in {fetched.balances[k] : k \in 1..Len(fetched.balances)} :
            e.key = addr).balance
  ELSE Zero

\* the locks of an address in the state the contract held
RefLocks(addr) ==
  IF HasKey(fetched.vault, addr)
    THEN (CHOOSE e \in {fetched.vault[k] : k \in 1..Len(fetched.vault)} :
            e.key = addr).locks
  ELSE <<>>

\* the locks whose unlock height has not passed at the height of the read
Unexpired(locks) == SelectSeq(locks, LAMBDA lock : lock.end > height)

RefVaulted(addr) == SumSeq([k \in 1..Len(RefLocks(addr)) |-> RefLocks(addr)[k].balance])
RefVaultedUnexpired(addr) ==
  SumSeq([k \in 1..Len(Unexpired(RefLocks(addr))) |->
            Unexpired(RefLocks(addr))[k].balance])

\* the addresses that have a balance entry or a non-empty vault
Holders ==
  {fetched.balances[k].key : k \in 1..Len(fetched.balances)}
    \cup {fetched.vault[k].key :
            k \in {j \in 1..Len(fetched.vault) : Len(fetched.vault[j].locks) > 0}}

RECURSIVE SumOver(_, _)
SumOver(addrs, f) ==
  IF addrs = {} THEN Zero
  ELSE LET a == CHOOSE x \in addrs : TRUE
       IN  Add(f[a], SumOver(addrs \ {a}, f))

RefTotal ==
  Add(SumOver(Holders, [a \in Holders |-> RefDirect(a)]),
      SumOver(Holders, [a \in Holders |-> RefVaulted(a)]))
RefTotalUnexpired ==
  Add(SumOver(Holders, [a \in Holders |-> RefDirect(a)]),
      SumOver(Holders, [a \in Holders |-> RefVaultedUnexpired(a)]))

HolderStateRead == op = "createFee" /\ fetched # Undefined

\* C13: the map handed to weightedRandom has one entry for every address
\* with a balance entry or a non-empty vault; its weight is (direct balance
\* + sum of its vault balances) / (total of all direct and vaulted
\* balances); the weights sum to 1 when that total is positive.
C13_HolderWeights ==
  HolderStateRead =>
    /\ {input[k].key : k \in 1..Len(input)} = Holders
    /\ Len(input) = Cardinality(Holders)
    /\ \A k \in 1..Len(input) :
         input[k].weight =
           Div(Add(RefDirect(input[k].key), RefVaulted(input[k].key)), RefTotal)
    /\ Gt(RefTotal, Zero) => Cumulative(Len(input)) = Num(1)

\* a holder with a direct balance and locks weighs more than its direct
\* balance alone, next to another holder
C13_Witness ==
  /\ HolderStateRead
  /\ Len(input) >= 2
  /\ \E k \in 1..Len(input) :
       /\ Gt(RefDirect(input[k].key), Zero)
       /\ Gt(RefVaulted(input[k].key), Zero)
       /\ Gt(input[k].weight, Div(RefDirect(input[k].key), RefTotal))
       /\ Gt(Num(1), input[k].weight)

\* C14: a lock counts towards the weight of its holder only while its unlock
\* height (end) has not passed: the weights are those of the state without
\* its expired locks.
C14_ExpiredLocksExcluded ==
  HolderStateRead =>
    \A k \in 1..Len(input) :
      input[k].weight =
        Div(Add(RefDirect(input[k].key), RefVaultedUnexpired(input[k].key)),
            RefTotalUnexpired)

\* C23: selectWeightedHolder leaves the state object it fetched as it was, so
\* a second call on the same object computes the weight map of the first.
C23_FetchedStateUnchanged ==
  (HolderStateRead /\ pc = "cf_post") =>
    /\ state = fetched
    /\ holderWeights(state) = input

(***************************************************************************)
(* Exchange.cancel (src/common/exchange.ts).                               *)
(***************************************************************************)
\* allOrders.find(({ id }) => id === orderID), on a fetched contract state
getOrder(clobContractState, id) ==
  LET found == SelectSeq(getOrderBook(clobContractState, NoInput),
                         LAMBDA order : order.id = id)
  IN  IF found = <<>> THEN Undefined ELSE found[1]

\* mutant: the lookup result is not tested
orderMissing_never(order) == FALSE

\* !order
orderMissing(order) == order = Undefined

OrderMissingMessage == "Order does not exist"
CancelIds == {1, 2, 100, 999}

InitCancel ==
  /\ op = "cancel"
  /\ pc = "cn_lookup"
  /\ orderID \in CancelIds
  /\ clob = Undefined
  /\ calls = <<>>
  /\ result = Undefined
  /\ pair = [from |-> TokenA, to |-> TokenB]
  /\ amount = Zero
  /\ price = Undefined
  /\ stateReads = 0
  /\ error = ""
  /\ version = "none"
  /\ webhook = "none" /\ transfer = Undefined /\ orderInput = Undefined /\ LedgerDefaults
  /\ hashArg = Undefined
  /\ query = Undefined
  /\ posts = <<>>
  /\ EstimateDefaults
  /\ WeightedDefaults
  /\ FeeDefaults
  /\ ConcurrentDefaults

CancelFrame ==
  UNCHANGED <<op, pair, amount, price, estimateVars, weightedVars, version, orderID,
              transfer, orderInput, feeVars, webhook, hashArg, query, posts, concurrentVars, ledgerVars, priceVars>>

\* lines 194-197 with 270-274: the order is looked up in the order book
cancel_lookup ==
  /\ pc = "cn_lookup"
  /\ stateReads' = stateReads + 1
  /\ \/ \E clobContractState \in ClobStates :
          /\ clob' = clobContractState
          /\ IF orderMissing(getOrder(clobContractState, orderID))
               THEN pc' = "cn_error" /\ error' = OrderMissingMessage
             ELSE pc' = "cn_interact" /\ error' = error
     \/ /\ pc' = "cn_error"
        /\ error' = "getState failed"
        /\ clob' = clob
  /\ UNCHANGED <<calls, result>>
  /\ CancelFrame

\* lines 199-219: the cancelOrder interaction
cancel_interact ==
  /\ pc = "cn_interact"
  /\ calls' = Append(calls, "cancelOrder")
  /\ \/ pc' = "cn_sync" /\ error' = error
     \/ pc' = "cn_error" /\ error' = "cancelOrder failed"
  /\ UNCHANGED <<stateReads, clob, result>>
  /\ CancelFrame

\* lines 221-225: mining and the foreign call sync of the tokens of the pair
cancel_sync ==
  /\ pc = "cn_sync"
  /\ calls' = Append(calls, "syncFCP")
  /\ \/ pc' = "cn_hooked" /\ error' = error
     \/ pc' = "cn_error" /\ error' = "syncFCP failed"
  /\ UNCHANGED <<stateReads, clob, result>>
  /\ CancelFrame

\* lines 227-232: what cacheContractHook handed back is returned
cancel_return ==
  /\ pc = "cn_hooked"
  /\ \/ pc' = "cn_done" /\ result' = "cancel" /\ error' = error
     \/ pc' = "cn_error" /\ error' = "Order could not be cancelled" /\ result' = result
  /\ UNCHANGED <<stateReads, clob, calls>>
  /\ CancelFrame

NextCancel ==
  \/ cancel_lookup
  \/ cancel_interact
  \/ cancel_sync
  \/ cancel_return

SpecCancel == InitCancel /\ [][NextCancel]_vars

(***************************************************************************)
(* Properties of cancel.                                                   *)
(***************************************************************************)
\* the order book read by the lookup holds an order with the id
OrderListed == \E o \in AllOrdersOf(clob) : o.id = orderID

\* C20: cancel submits the cancelOrder interaction only for an order that
\* was in the order book at the lookup; when none is found it throws
\* "Order does not exist" and submits no interaction and no FCP sync.
C20_CancelOnlyExisting ==
  op = "cancel" =>
    /\ calls # <<>> => (clob # Undefined /\ OrderListed)
    /\ (clob # Undefined /\ ~OrderListed) =>
         /\ pc = "cn_error"
         /\ error = "Order does not exist"
         /\ calls = <<>>
         /\ result = Undefined

\* the id was not in the book that was read: the error, and no call
C20_Witness ==
  /\ op = "cancel"
  /\ clob # Undefined
  /\ ~OrderListed
  /\ pc = "cn_error"
  /\ error = "Order does not exist"
  /\ calls = <<>>

(***************************************************************************)
(* Verto.recommendPost (src/index.ts).  The weightedRandom of that class   *)
(* has the body of Utils.weightedRandom.                                   *)
(***************************************************************************)
\* parseFloat(x.toFixed(3)): x rounded to three decimals, halves away from 0
toFixed3(x) ==
  IF x = Undefined THEN NaN
  ELSE IF x[2] = 0 THEN x
  ELSE LET scaled == Mul(x, Num(1000))
           magnitude == IF scaled[1] < 0 THEN Neg(scaled) ELSE scaled
           rounded == Floor(Add(magnitude, Frac(1, 2)))
       IN  Frac(Sign(scaled[1]) * rounded[1], 1000)

\* post.stake / 2 + post.time / 3 + post.balance / 6, to three decimals
getReputation(post) ==
  toFixed3(Add(Add(Div(post.stake, Num(2)), Div(post.time, Num(3))),
               Div(post.balance, Num(6))))

\* total += reputation, over the posts
totalReputation(ps) == SumSeq([k \in 1..Len(ps) |-> getReputation(ps[k])])

\* mutant: the reputations are not divided by their total
normalised_raw(ps) ==
  [k \in 1..Len(ps) |-> [key |-> ps[k].address, weight |-> getReputation(ps[k])]]

\* normalised[post.address] = reputations[post.address] / total
normalised(ps) ==
  [k \in 1..Len(ps) |->
     [key |-> ps[k].address, weight |-> Div(getReputation(ps[k]), totalReputation(ps))]]

MaxPosts == 2      \* trading posts the endpoint returns

PostAddress(k) == Str(Rep(KeyLetters[k + 2], HashLength))
PostValues == [stake : {Zero, Num(1)}, time : {Zero, Num(1)}, balance : {Zero, Num(1)}]
PostLists ==
  { [k \in 1..Len(vs) |-> [address |-> PostAddress(k), stake |-> vs[k].stake,
                           time |-> vs[k].time, balance |-> vs[k].balance]] :
      vs \in UNION {[1..n -> PostValues] : n \in 0..MaxPosts} }

InitRecommend ==
  /\ op = "recommendPost"
  /\ pc = "rp_fetch"
  /\ posts = <<>>
  /\ result = Undefined
  /\ pair = [from |-> TokenA, to |-> TokenB]
  /\ amount = Zero
  /\ price = Undefined
  /\ stateReads = 0
  /\ error = ""
  /\ version = "none"
  /\ calls = <<>>
  /\ orderID = NoOrder
  /\ webhook = "none" /\ transfer = Undefined /\ orderInput = Undefined /\ LedgerDefaults
  /\ hashArg = Undefined
  /\ query = Undefined
  /\ clob = Undefined
  /\ EstimateDefaults
  /\ WeightedDefaults
  /\ FeeDefaults
  /\ ConcurrentDefaults

RecommendFrame ==
  UNCHANGED <<op, pair, amount, price, stateReads, estimateVars, swapVars, feeVars,
              webhook, hashArg, query, clob, concurrentVars, ledgerVars, priceVars, sum, keyIdx, selected,
              viaFallback>>

\* index.ts 412-415 and 422: the trading posts are fetched
recommendPost_fetch ==
  /\ pc = "rp_fetch"
  /\ \/ posts' \in PostLists /\ pc' = "rp_select" /\ error' = error
     \/ posts' = posts /\ pc' = "rp_error" /\ error' = "request failed"
  /\ UNCHANGED <<input, r, result>>
  /\ RecommendFrame

\* index.ts 424-437: the reputations, their shares and the weighted draw
recommendPost_select ==
  /\ pc = "rp_select"
  /\ input' = normalised(posts)
  /\ r' \in Draws
  /\ result' = weightedRandom(input', r')
  /\ pc' = "rp_done"
  /\ UNCHANGED <<posts, error>>
  /\ RecommendFrame

NextRecommend ==
  \/ recommendPost_fetch
  \/ recommendPost_select

SpecRecommend == InitRecommend /\ [][NextRecommend]_vars

RecommendDone == op = "recommendPost" /\ pc = "rp_done"

Procs == {1, 2}

\* lines 331-358 as a function of the reverse orders, from position k on
RECURSIVE walkFrom(_, _, _, _, _)
walkFrom(orders, k, imm, remaining, p) ==
  IF k > Len(orders) \/ loopBreaks(remaining)
    THEN [immediate |-> imm, remaining |-> remaining]
  ELSE IF skipOrder(p, orders[k])
    THEN walkFrom(orders, k + 1, imm, remaining, p)
  ELSE IF isLastOrder(remaining, p, orders[k])
    THEN [immediate |-> Add(imm, Mul(remaining, Inv(orders[k].price))),
          remaining |-> Zero]
  ELSE walkFrom(orders, k + 1, Add(imm, orders[k].quantity),
                Sub(remaining, Mul(orders[k].quantity, orders[k].price)), p)

\* lines 316-372 as a function of the fetched order book
estimateOf(book, p, a, limit) ==
  LET reverse == SelectSeq(book, LAMBDA order : isReverse(p, order))
      walked == walkFrom(reverse, 1, Zero, a, limit)
  IN  [immediate |-> walked.immediate,
       rest |-> restOf(walked.remaining, limit, average(sameDirection(book, reverse)))]

\* mutant: the awaited value is kept in one place for all calls
slotOf_shared(i) == 1

\* the awaited value of a call is delivered to that call
slotOf(i) == i

ConcurrentBooks ==
  { WithIds(<<[token |-> TokenB, price |-> Num(2), quantity |-> Num(1)]>>),
    WithIds(<<[token |-> TokenA, price |-> Frac(1, 2), quantity |-> Num(2)],
              [token |-> TokenB, price |-> Num(2), quantity |-> Num(2)]>>) }
ConcurrentClobStates == {st \in ClobStates : st.pairs[1].orders \in ConcurrentBooks}
ConcurrentWeights ==
  { <<[key |-> KeyAt(1), weight |-> Frac(1, 2)], [key |-> KeyAt(3), weight |-> Frac(1, 2)]>>,
    <<[key |-> KeyAt(1), weight |-> Zero], [key |-> KeyAt(3), weight |-> Frac(1, 2)]>> }
ConcurrentDraws == {Zero, Frac(3, 4)}

EstimateCalls ==
  [kind : {"estimateSwap"}, pc : {"start"},
   pair : {[from |-> TokenA, to |-> TokenB], [from |-> TokenB, to |-> TokenA]},
   amount : {Zero, Num(2)}, price : {Undefined, Num(2)},
   weights : {<<>>}, draw : {Zero}, snapshot : {Undefined}, result : {Undefined},
   error : {""}]
WeightedCalls ==
  [kind : {"weightedRandom"}, pc : {"start"},
   pair : {[from |-> TokenA, to |-> TokenB]}, amount : {Zero}, price : {Undefined},
   weights : ConcurrentWeights, draw : ConcurrentDraws, snapshot : {Undefined},
   result : {Undefined}, error : {""}]

InitConcurrent ==
  /\ op = "concurrent"
  /\ pc = "running"
  /\ procs \in [Procs -> EstimateCalls \cup WeightedCalls]
  /\ slots = [i \in Procs |-> Undefined]
  /\ clob \in ConcurrentClobStates
  /\ pair = [from |-> TokenA, to |-> TokenB]
  /\ amount = Zero
  /\ price = Undefined
  /\ stateReads = 0
  /\ error = ""
  /\ version = "none"
  /\ calls = <<>>
  /\ orderID = NoOrder
  /\ webhook = "none" /\ transfer = Undefined /\ orderInput = Undefined /\ LedgerDefaults
  /\ hashArg = Undefined
  /\ query = Undefined
  /\ result = Undefined
  /\ posts = <<>>
  /\ EstimateDefaults
  /\ WeightedDefaults
  /\ FeeDefaults

ConcurrentFrame ==
  UNCHANGED <<op, pc, pair, amount, price, error, estimateVars, weightedVars, swapVars,
              feeVars, webhook, hashArg, query, result, posts, ledgerVars, priceVars>>

\* exchange.ts 301-314 up to the await; utils.ts 568-580 as a whole
concurrent_call(i) ==
  /\ procs[i].pc = "start"
  /\ IF procs[i].kind = "weightedRandom"
       THEN /\ procs' = [procs EXCEPT ![i].pc = "done",
                                      ![i].result = weightedRandom(procs[i].weights,
                                                                   procs[i].draw)]
            /\ UNCHANGED stateReads
     ELSE IF ~validPair(procs[i].pair)
       THEN /\ procs' = [procs EXCEPT ![i].pc = "error", ![i].error = InvalidPairMessage]
            /\ UNCHANGED stateReads
     ELSE IF ~validAmount(procs[i].amount)
       THEN /\ procs' = [procs EXCEPT ![i].pc = "error", ![i].error = InvalidAmountMessage]
            /\ UNCHANGED stateReads
     ELSE /\ procs' = [procs EXCEPT ![i].pc = "awaiting"]
          /\ stateReads' = stateReads + 1
  /\ UNCHANGED <<slots, clob>>
  /\ ConcurrentFrame

\* exchange.ts 314 with 240-263: the read is answered from the contract
\* state of the moment and the awaited promise resolves
concurrent_deliver(i) ==
  /\ procs[i].pc = "awaiting"
  /\ slots' = [slots EXCEPT ![slotOf(i)] =
                 getOrderBook(clob, PairInput(procs[i].pair.from, procs[i].pair.to))]
  /\ procs' = [procs EXCEPT ![i].pc = "resumable", ![i].snapshot = clob]
  /\ UNCHANGED <<stateReads, clob>>
  /\ ConcurrentFrame

\* exchange.ts 314-372: the call resumes with the awaited value and returns
concurrent_resume(i) ==
  /\ procs[i].pc = "resumable"
  /\ procs' = [procs EXCEPT ![i].pc = "done",
                            ![i].result = estimateOf(slots[slotOf(i)], procs[i].pair,
                                                     procs[i].amount, procs[i].price)]
  /\ UNCHANGED <<stateReads, slots, clob>>
  /\ ConcurrentFrame

\* other parties write to the CLOB contract
concurrent_ledger ==
  /\ op = "concurrent"
  /\ \E st \in ConcurrentClobStates : st # clob /\ clob' = st
  /\ UNCHANGED <<stateReads, procs, slots>>
  /\ ConcurrentFrame

NextConcurrent ==
  \/ \E i \in Procs : concurrent_call(i)
  \/ \E i \in Procs : concurrent_deliver(i)
  \/ \E i \in Procs : concurrent_resume(i)
  \/ concurrent_ledger

SpecConcurrent == InitConcurrent /\ [][NextConcurrent]_vars

(***************************************************************************)
(* Properties of concurrent calls.                                         *)
(***************************************************************************)
\* what weightedRandom returns alone: the first key at which the draw is
\* within the cumulative sum and the weight is positive, else the wallet
FirstEligibleOf(in, draw) ==
  LET eligible(k) == /\ Leq(draw, SumSeq([j \in 1..k |-> in[j].weight]))
                     /\ Gt(in[k].weight, Zero)
  IN  IF \E k \in 1..Len(in) : eligible(k)
        THEN in[CHOOSE k \in 1..Len(in) :
                  eligible(k) /\ \A j \in 1..(k - 1) : ~eligible(j)].key
      ELSE EXCHANGE_WALLET

\* what the call returns when it runs alone on its snapshot and draw
AloneResult(call) ==
  IF call.kind = "weightedRandom" THEN FirstEligibleOf(call.weights, call.draw)
  ELSE estimateOf(getOrderBook(call.snapshot, PairInput(call.pair.from, call.pair.to)),
                  call.pair, call.amount, call.price)

\* C18: however the steps of concurrent estimateSwap and weightedRandom
\* calls interleave, a call that has returned has returned what it returns
\* alone on its snapshot and draw, and what a call resumes with is the order
\* book of its own snapshot: no other call has written what it reads.
C18_CallsIndependent ==
  op = "concurrent" =>
    \A i \in Procs :
      /\ procs[i].pc = "done" => procs[i].result = AloneResult(procs[i])
      /\ procs[i].pc \in {"start", "awaiting"} =>
           procs[i].result = Undefined /\ procs[i].snapshot = Undefined
      /\ procs[i].pc = "resumable" =>
           slots[i] = getOrderBook(procs[i].snapshot,
                                   PairInput(procs[i].pair.from, procs[i].pair.to))

\* two estimates of the same pair ran on different snapshots, interleaved,
\* and returned different results
C18_Witness ==
  /\ op = "concurrent"
  /\ \A i \in Procs : procs[i].pc = "done" /\ procs[i].kind = "estimateSwap"
  /\ procs[1].snapshot # procs[2].snapshot
  /\ procs[1].pair = procs[2].pair
  /\ procs[1].amount = procs[2].amount
  /\ procs[1].price = procs[2].price
  /\ procs[1].result # procs[2].result

\* the immediate of the walk over the same reverse orders for another amount
ImmediateFor(a) == walkFrom(reverseOrders, 1, Zero, a, price).immediate

\* C28: on one order book and with one limit price (or none), immediate does
\* not decrease when the amount grows.
C28_MonotoneInAmount ==
  EstimateDone =>
    \A a \in Amounts :
      (validAmount(a) /\ Leq(amount, a)) => Leq(immediate, ImmediateFor(a))

(***************************************************************************)
(* Utils.loopOrders: the interactions of the CLOB contract, page by page.  *)
(* A node carries what the code reads of a transaction: the Contract tag,  *)
(* the function, transaction and qty of the parsed Input tag, and the time *)
(* of its block, counted in days.                                          *)
(***************************************************************************)
MaxEdges == 3
PageSize == 2
MaxTime == 2

\* the value of a tag or field is a non-empty string
Present(x) == x.isString /\ StrLen(x.chars) > 0

TransferId == Str(Rep("t", HashLength))

Node(contract, hasInput, function, transaction, qty, time) ==
  [contract |-> contract, hasInput |-> hasInput, function |-> function,
   transaction |-> transaction, qty |-> qty, timestamp |-> time]

BlockTimes == 0..MaxTime

\* utils.ts 275-276: midnight of the day the call is made
Today == 1

\* utils.ts 511-518
tomorrow(date) == date + 1

OrderNodes ==
  {Node(TokenA, TRUE, "createOrder", TransferId, Undefined, t) : t \in BlockTimes}
    \cup {Node(TokenA, TRUE, "cancelOrder", TransferId, Undefined, Today),
          Node(TokenA, TRUE, "createOrder", NotAString, Undefined, Today),
          Node(ShortHash, TRUE, "createOrder", TransferId, Undefined, Today)}

Ledgers == UNION {[1..n -> OrderNodes] : n \in 0..MaxEdges}

Betweens ==
  {Undefined} \cup {<<from, to>> : from \in BlockTimes, to \in BlockTimes}

\* the edge of the k-th transaction: its cursor is its position
EdgeAt(txs, k) == [cursor |-> k, node |-> txs[k]]

\* transactions(first: 100, ids: $txs, after: $cursor) { edges { cursor node } }
PageAfter(txs, after) ==
  [k \in 1..(IF Len(txs) - after < PageSize THEN Len(txs) - after ELSE PageSize) |->
     EdgeAt(txs, after + k)]

\* utils.ts 392-409
checkIfValidOrder(node) ==
  /\ Present(node.contract)
  /\ validateHash(node.contract)
  /\ Present(node.transaction)
  /\ node.function = "createOrder"

\* utils.ts 417-422
checkIfBetween(date, region) == date >= region[1] /\ date <= region[2]

\* utils.ts 274-296: the edges of a page that are pushed
pushedOfPage(edges, btw) ==
  IF btw # Undefined
    THEN SelectSeq(edges, LAMBDA e :
           checkIfBetween(e.node.timestamp, <<Today, tomorrow(Today)>>)
             /\ checkIfValidOrder(e.node))
  ELSE SelectSeq(edges, LAMBDA e : checkIfValidOrder(e.node))

InitLoopOrders ==
  /\ op = "loopOrders"
  /\ pc = "lo_query"
  /\ ledger \in Ledgers
  /\ between \in Betweens
  /\ cursor = 0
  /\ orderEdges = <<>>
  /\ transferTxs = <<>>
  /\ matched = <<>>
  /\ validOrderQuantities = <<>>
  /\ history = <<>>
  /\ high = 0
  /\ pair = [from |-> TokenA, to |-> TokenB]
  /\ amount = Zero
  /\ price = Undefined
  /\ stateReads = 0
  /\ error = ""
  /\ version = "none"
  /\ calls = <<>>
  /\ orderID = NoOrder
  /\ webhook = "none"
  /\ transfer = Undefined
  /\ orderInput = Undefined
  /\ EstimateDefaults
  /\ WeightedDefaults
  /\ FeeDefaults
  /\ QueryDefaults
  /\ ConcurrentDefaults

LedgerFrame ==
  UNCHANGED <<op, pair, amount, price, stateReads, estimateVars, weightedVars,
              swapVars, feeVars, webhook, queryVars, concurrentVars, priceVars>>

\* utils.ts 245-305: one call of loopOrders, from the query to the return or
\* to the recursive call with the cursor of the last edge
loopOrders_page ==
  /\ pc = "lo_query"
  /\ \/ LET edges == PageAfter(ledger, cursor)
            pushed == orderEdges \o pushedOfPage(edges, between)
        IN  /\ orderEdges' = pushed
            /\ IF Len(edges) = 0
                 THEN /\ result' = pushed
                      /\ pc' = "lo_done"
                      /\ UNCHANGED cursor
               ELSE /\ cursor' = edges[Len(edges)].cursor
                    /\ UNCHANGED <<pc, result>>
            /\ error' = error
     \/ /\ pc' = "lo_error"
        /\ error' = "arGQL failed"
        /\ UNCHANGED <<orderEdges, cursor, result>>
  /\ UNCHANGED <<ledger, between, transferTxs, matched, validOrderQuantities>>
  /\ LedgerFrame

NextLoopOrders == loopOrders_page

SpecLoopOrders == InitLoopOrders /\ [][NextLoopOrders]_vars

\* every edge the gateway holds, in order
AllEdges(txs) == [k \in 1..Len(txs) |-> EdgeAt(txs, k)]

\* C24: with between = [from, to] loopOrders returns exactly the valid
\* createOrder interactions of all pages whose block date lies between from
\* and to, both included; without between, all valid createOrder
\* interactions of all pages.
C24_LoopOrdersBetween ==
  (op = "loopOrders" /\ pc = "lo_done") =>
    result = SelectSeq(AllEdges(ledger), LAMBDA e :
               /\ checkIfValidOrder(e.node)
               /\ between # Undefined =>
                    (e.node.timestamp >= between[1] /\ e.node.timestamp <= between[2]))

(***************************************************************************)
(* Token.getVolumeHistory: the loop over the interactions.                 *)
(***************************************************************************)
InitVolumeHistory ==
  /\ op = "getVolumeHistory"
  /\ pc = "vh_query"
  /\ ledger \in Ledgers
  /\ between = Undefined
  /\ cursor = 0
  /\ orderEdges = <<>>
  /\ transferTxs = <<>>
  /\ matched = <<>>
  /\ validOrderQuantities = <<>>
  /\ history = <<>>
  /\ high = 0
  /\ pair = [from |-> TokenA, to |-> TokenB]
  /\ amount = Zero
  /\ price = Undefined
  /\ stateReads = 0
  /\ error = ""
  /\ version = "none"
  /\ calls = <<>>
  /\ orderID = NoOrder
  /\ webhook = "none"
  /\ transfer = Undefined
  /\ orderInput = Undefined
  /\ EstimateDefaults
  /\ WeightedDefaults
  /\ FeeDefaults
  /\ QueryDefaults
  /\ ConcurrentDefaults

\* part_013 272-314: one call of loop, from the query to the return or to
\* the recursive call; on an empty page edges[edges.length - 1] is undefined
\* and reading its cursor throws
getVolumeHistory_loop ==
  /\ pc = "vh_query"
  /\ \/ LET edges == PageAfter(ledger, cursor)
            loopOrders == SelectSeq(edges, LAMBDA e : checkIfValidOrder(e.node))
            pushed == orderEdges \o loopOrders
        IN  /\ orderEdges' = pushed
            /\ IF Len(edges) > 0
                 THEN /\ result' = pushed
                      /\ pc' = "vh_done"
                      /\ error' = error
               ELSE /\ pc' = "vh_error"
                    /\ error' = "TypeError: cannot read cursor of undefined"
                    /\ UNCHANGED result
     \/ /\ pc' = "vh_error"
        /\ error' = "arGQL failed"
        /\ UNCHANGED <<orderEdges, result>>
  /\ UNCHANGED <<ledger, cursor, between, transferTxs, matched, validOrderQuantities>>
  /\ LedgerFrame

NextVolumeHistory == getVolumeHistory_loop

SpecVolumeHistory == InitVolumeHistory /\ [][NextVolumeHistory]_vars

\* C25: the loop of getVolumeHistory collects the valid orders of every
\* non-empty page once and ends without an error of its own at the empty
\* page: when it has ended and no request failed, it has returned all valid
\* orders of the ledger.
C25_VolumeHistoryLoopsAll ==
  (op = "getVolumeHistory" /\ pc \in {"vh_done", "vh_error"} /\ error # "arGQL failed") =>
    /\ pc = "vh_done"
    /\ result = SelectSeq(AllEdges(ledger), LAMBDA e : checkIfValidOrder(e.node))

(***************************************************************************)
(* Utils.calculateVolumeForDay: the volume of the transfers of the orders. *)
(***************************************************************************)
MaxGiven == 2

TransferIds == {Str(Rep(c, HashLength)) : c \in {"t", "u", "v"}}

\* the orders handed in: the Input tag may be missing, its transaction may
\* be a transfer id, missing, or no hash
GivenNodes ==
  {Node(TokenA, TRUE, "createOrder", id, Undefined, Today) : id \in TransferIds}
    \cup {Node(TokenA, TRUE, "createOrder", NotAString, Undefined, Today),
          Node(TokenA, FALSE, "createOrder", NotAString, Undefined, Today),
          Node(TokenA, TRUE, "createOrder", ShortHash, Undefined, Today)}

GivenOrders ==
  {AllEdges(nodes) : nodes \in UNION {[1..m -> GivenNodes] : m \in 0..MaxGiven}}

\* a transfer as the gateway holds it: its id, its Contract tag, and the qty
\* of its Input tag when it has one
TransferNode(id, contract, hasInput, qty) ==
  [id |-> id, contract |-> contract, hasInput |-> hasInput, qty |-> qty]

TransferKinds ==
  {<<TokenA, TRUE, Num(1)>>, <<TokenA, TRUE, Undefined>>,
   <<TokenB, TRUE, Num(1)>>, <<TokenA, FALSE, Undefined>>}

\* the transfers of the gateway: at most one of each id
RECURSIVE TransfersOf(_, _)
TransfersOf(ids, pick) ==
  IF ids = <<>> THEN <<>>
  ELSE LET id == ids[1]
           head == IF pick[id] = <<>> THEN <<>>
                   ELSE <<TransferNode(id, pick[id][1], pick[id][2], pick[id][3])>>
       IN  head \o TransfersOf(Tail(ids), pick)

TransferIdSeq == <<Str(Rep("t", HashLength)), Str(Rep("u", HashLength)),
                   Str(Rep("v", HashLength))>>

TransferLedgers ==
  {TransfersOf(TransferIdSeq, pick) : pick \in [TransferIds -> TransferKinds \cup {<<>>}]}

\* utils.ts 316-329: the filter of the orders whose transfer id is read
hasTransferID(node) ==
  IF ~node.hasInput THEN FALSE
  ELSE IF Present(node.transaction) THEN FALSE
  ELSE validateHash(node.transaction)

\* utils.ts 312-335
transferTxsOf(given) ==
  LET kept == SelectSeq(given, LAMBDA e : hasTransferID(e.node))
  IN  [k \in 1..Len(kept) |-> kept[k].node.transaction]

\* transactions(ids: $txs): the transactions of these ids
withIds(txs, ids) ==
  SelectSeq(txs, LAMBDA tx : \E k \in 1..Len(ids) : ids[k] = tx.id)

\* utils.ts 430-445
checkIfValidOrderTransfer(transferTx, orderToken) ==
  IF ~transferTx.hasInput \/ ~Present(transferTx.contract) THEN FALSE
  ELSE IF Truthy(transferTx.qty) THEN FALSE
  ELSE IF transferTx.contract # orderToken THEN FALSE
  ELSE TRUE

InitVolumeForDay ==
  /\ op = "calculateVolumeForDay"
  /\ pc = "cv_filter"
  /\ orderEdges \in GivenOrders
  /\ ledger \in TransferLedgers
  /\ token = TokenA
  /\ between = Undefined
  /\ cursor = 0
  /\ transferTxs = <<>>
  /\ matched = <<>>
  /\ validOrderQuantities = <<>>
  /\ history = <<>>
  /\ high = 0
  /\ pair = [from |-> TokenA, to |-> TokenB]
  /\ amount = Zero
  /\ price = Undefined
  /\ stateReads = 0
  /\ error = ""
  /\ version = "none"
  /\ calls = <<>>
  /\ orderID = NoOrder
  /\ webhook = "none"
  /\ transfer = Undefined
  /\ orderInput = Undefined
  /\ feeTarget = "none"
  /\ fees = <<>>
  /\ state = Undefined
  /\ fetched = Undefined
  /\ height = 0
  /\ EstimateDefaults
  /\ WeightedDefaults
  /\ QueryDefaults
  /\ ConcurrentDefaults

\* utils.ts 312-335: the transfer ids of the orders; the gateway then holds
\* the transfers of these ids (when no id is asked for, the gateway decides
\* whether that selects nothing or everything)
calculateVolumeForDay_filter ==
  /\ pc = "cv_filter"
  /\ transferTxs' = transferTxsOf(orderEdges)
  /\ \/ matched' = withIds(ledger, transferTxs')
     \/ transferTxs' = <<>> /\ matched' = ledger
  /\ pc' = "cv_query"
  /\ UNCHANGED <<ledger, cursor, orderEdges, between, validOrderQuantities, error, result>>
  /\ LedgerFrame

\* utils.ts 341-380: one call of loopTransfers; line 366 reads `node`, which
\* no scope declares
calculateVolumeForDay_loopTransfers ==
  /\ pc = "cv_query"
  /\ \/ LET edges == PageAfter(matched, cursor)
        IN  IF \E k \in 1..Len(edges) : checkIfValidOrderTransfer(edges[k].node, token)
              THEN /\ pc' = "cv_error"
                   /\ error' = "ReferenceError: node is not defined"
                   /\ UNCHANGED <<cursor, result>>
            ELSE IF Len(edges) > 0
              THEN /\ cursor' = edges[Len(edges)].cursor
                   /\ UNCHANGED <<pc, error, result>>
            ELSE /\ result' = SumSeq(validOrderQuantities)
                 /\ pc' = "cv_done"
                 /\ UNCHANGED <<cursor, error>>
     \/ /\ pc' = "cv_error"
        /\ error' = "arGQL failed"
        /\ UNCHANGED <<cursor, result>>
  /\ UNCHANGED <<ledger, orderEdges, between, transferTxs, matched, validOrderQuantities>>
  /\ LedgerFrame

NextVolumeForDay ==
  \/ calculateVolumeForDay_filter
  \/ calculateVolumeForDay_loopTransfers

SpecVolumeForDay == InitVolumeForDay /\ [][NextVolumeForDay]_vars

\* the transfer ids the orders carry
ReferencedIds ==
  {orderEdges[k].node.transaction : k \in
     {j \in 1..Len(orderEdges) :
        orderEdges[j].node.hasInput /\ validateHash(orderEdges[j].node.transaction)}}

\* the referenced transfers of the token that carry a quantity
RefValidTransfers ==
  SelectSeq(ledger, LAMBDA tx :
    /\ tx.id \in ReferencedIds
    /\ tx.hasInput
    /\ tx.contract = token
    /\ Truthy(tx.qty))

RefVolume == SumSeq([k \in 1..Len(RefValidTransfers) |-> RefValidTransfers[k].qty])

\* C26: calculateVolumeForDay returns the sum of the qty of the transfers
\* that the given orders reference by a valid transfer id and that are
\* transfers of the token with a quantity; orders without a transfer id add
\* nothing.
C26_VolumeOfReferencedTransfers ==
  (op = "calculateVolumeForDay" /\ pc \in {"cv_done", "cv_error"}
     /\ error # "arGQL failed") =>
    /\ pc = "cv_done"
    /\ result = RefVolume

(***************************************************************************)
(* latestPrice: the mean price of the last day that has one.  The cache    *)
(* holds the orders of a token by day; history[d] are the orders of the    *)
(* window that ends d - 1 days before tomorrow, and every earlier window   *)
(* is empty.                                                               *)
(***************************************************************************)
MaxDays == 2
MaxDayOrders == 2

\* an order of the cache: status, and input "<amount> <unit>", output "<amount> ..."
CacheOrder(status, inAmount, inputUnit, outAmount) ==
  [status |-> status, input |-> inAmount, inputUnit |-> inputUnit, output |-> outAmount]

CacheOrders ==
  {CacheOrder("success", Num(1), "AR", Num(2)),
   CacheOrder("success", Num(1), "VRT", Num(2)),
   CacheOrder("pending", Num(1), "AR", Num(2))}

DayOrders == UNION {[1..n -> CacheOrders] : n \in 0..MaxDayOrders}

Histories == [1..MaxDays -> DayOrders]

\* axios.get(.../orders?token=id&from=low&to=high): the orders of the window
ordersOfWindow(h, d) == IF d <= Len(h) THEN h[d] ELSE <<>>

\* price.ts 60-71: the prices of the successful orders paid in AR
parsedOf(dayOrders) ==
  LET kept == SelectSeq(dayOrders, LAMBDA order :
                order.status = "success" /\ order.inputUnit = "AR")
  IN  [k \in 1..Len(kept) |-> Div(kept[k].input, kept[k].output)]

\* the window before: past the days the cache holds all windows are alike,
\* and only whether their number is odd or even is kept
lowOf(d) ==
  IF d <= MaxDays THEN d + 1
  ELSE IF d = MaxDays + 1 THEN MaxDays + 2
  ELSE MaxDays + 1

InitPrice ==
  /\ op = "latestPrice"
  /\ pc = "lp_query"
  /\ history \in Histories
  /\ high = 1
  /\ ledger = <<>>
  /\ cursor = 0
  /\ orderEdges = <<>>
  /\ between = Undefined
  /\ transferTxs = <<>>
  /\ matched = <<>>
  /\ validOrderQuantities = <<>>
  /\ pair = [from |-> TokenA, to |-> TokenB]
  /\ amount = Zero
  /\ price = Undefined
  /\ stateReads = 0
  /\ error = ""
  /\ version = "none"
  /\ calls = <<>>
  /\ orderID = NoOrder
  /\ webhook = "none"
  /\ transfer = Undefined
  /\ orderInput = Undefined
  /\ EstimateDefaults
  /\ WeightedDefaults
  /\ FeeDefaults
  /\ QueryDefaults
  /\ ConcurrentDefaults

PriceFrame ==
  UNCHANGED <<op, pair, amount, price, stateReads, estimateVars, weightedVars,
              swapVars, feeVars, webhook, queryVars, concurrentVars, ledgerVars,
              history>>

\* price.ts 44-79: one call of latestPrice whose request is answered, from
\* the request to the return or to the recursive call for the window before
latestPrice_call ==
  /\ pc = "lp_query"
  /\ error' = error
  /\ \E parsed \in {parsedOf(ordersOfWindow(history, high))} :
       IF Len(parsed) > 0
         THEN /\ \E total \in {SumSeq(parsed)} :
                   result' = Div(total, Num(Len(parsed)))
              /\ pc' = "lp_done"
              /\ UNCHANGED high
       ELSE /\ high' = lowOf(high)
            /\ UNCHANGED <<pc, result>>
  /\ PriceFrame

\* price.ts 53-55: the request fails and the call rejects
latestPrice_failed ==
  /\ pc = "lp_query"
  /\ pc' = "lp_error"
  /\ error' = "axios.get failed"
  /\ UNCHANGED <<high, result>>
  /\ PriceFrame

NextPrice ==
  \/ latestPrice_call
  \/ latestPrice_failed

SpecPrice == InitPrice /\ [][NextPrice]_vars

\* every request is answered in the end
FairSpecPrice == SpecPrice /\ WF_vars(latestPrice_call)

\* C29: latestPrice terminates for every token and all cache responses, also
\* when the token has no order or no successful order paid in AR.
C29_LatestPriceTerminates ==
  (op = "latestPrice") ~> (pc \in {"lp_done", "lp_error"})

(***************************************************************************)
(* The operations together.                                                *)
(***************************************************************************)
Init == InitEstimate \/ InitWeighted \/ InitSwap \/ InitFee \/ InitHash \/ InitOrderBook
          \/ InitConcurrent \/ InitRecommend \/ InitCancel \/ InitLoopOrders
          \/ InitVolumeHistory \/ InitVolumeForDay \/ InitPrice
Next == NextEstimate \/ NextWeighted \/ NextSwap \/ NextFee \/ NextHash \/ NextOrderBook
          \/ NextConcurrent \/ NextRecommend \/ NextCancel \/ NextLoopOrders
          \/ NextVolumeHistory \/ NextVolumeForDay \/ NextPrice
Spec == Init /\ [][Next]_vars
====
